---- MODULE Spec2Model ----
(***************************************************************************)
(* A model of the storage engine of str.hpp: the packed header (m_data,    *)
(* m_length, m_capacity:21, m_local_buffer_size:10, m_owns_buffer:1), the  *)
(* embedded local buffer of str_sized<Size>, the shared empty dummy        *)
(* string, caller-supplied C strings, and the heap behind STR_MEM_ALLOC /  *)
(* STR_MEM_FREE.  Memory is modelled byte by byte; a pointer is a region   *)
(* plus an offset.  The bit-fields are signed (std::int32_t bit-fields, as *)
(* GCC, Clang and MSVC lay them out), and a store into them wraps.  The    *)
(* formatted writes follow the non-MSVC branch, the one the Makefile       *)
(* builds.                                                                 *)
(***************************************************************************)
EXTENDS Integers, Sequences, FiniteSets, TLC

VARIABLES
    hdr,      \* hdr[i]: the five header fields of instance i
    alive,    \* alive[i]: instance i is constructed and not yet destroyed
    size,     \* size[i]: the template argument Size of instance i (0: plain str)
    loc,      \* loc[i]: the bytes of m_local_buf of instance i
    heap,     \* heap[b]: the b-th block STR_MEM_ALLOC returned
    ext,      \* ext[e]: the bytes of the caller's e-th C string
    dummy,    \* the bytes of s_dummy
    badfree,  \* what STR_MEM_FREE was handed that was no live heap block
    fault,    \* the first undefined memory access, "" if none
    halt,     \* the STR_ASSERT that stopped the program, "" if none
    ndebug,   \* TRUE: STR_ASSERT compiles to nothing
    ret,      \* the value the last call returned (1 true, 0 false, -1 void)
    last,     \* the last call: its name and arguments
    calls,    \* how many calls the program has made
    iter      \* the iterator the program holds: its three pointers

vars ==
    <<hdr, alive, size, loc, heap, ext, dummy, badfree, fault, halt, ndebug, ret, last, calls,
      iter>>

---------------------------------------------------------------------------
(* Bounds of the model. *)

\* STR_MEM_ALLOC is called at most this many times in one behaviour.
MaxAllocs == 3
\* No call makes a string longer than this.
MaxLen == 3
\* The program makes at most this many calls after its constructors.
MaxCalls == 2

(* Constants of the program. *)

CapacityBits == 21
LocalSizeBits == 10
DefaultExtra == 16
DummySize == 4
LocalSizeLimit == 1024

\* The terminator.
NUL == 0
\* What a byte that was never written reads as.
Uninit == 0 - 1
\* The character codes the model's strings are made of.
Alphabet == [space |-> 32, upperA |-> 65, upperB |-> 66, lowerA |-> 97, lowerB |-> 98]
ChSpace == Alphabet.space
ChUpperA == Alphabet.upperA
ChLowerA == Alphabet.lowerA
ChLowerB == Alphabet.lowerB

\* Instance 0 is the temporary that swap and move assignment create.
Tmp == 0
Inst == {1, 2}
AllInst == {Tmp} \cup Inst

\* The caller's C strings, with their terminators.
ExtInit == << <<ChSpace, ChLowerA, NUL>>, <<NUL>> >>
ExtId == DOMAIN ExtInit

Min(a, b) == IF a < b THEN a ELSE b
Max(a, b) == IF a < b THEN b ELSE a

---------------------------------------------------------------------------
(* Bit-fields. *)

Pow2(w) == 2 ^ w

\* A store into a signed bit-field of w bits keeps the low w bits.
WrapSigned(v, w) ==
    LET r == v % Pow2(w)
    IN  IF r >= Pow2(w - 1) THEN r - Pow2(w) ELSE r

StoreCapacity(v) == WrapSigned(v, CapacityBits)
StoreLocalSize(v) == WrapSigned(v, LocalSizeBits)

---------------------------------------------------------------------------
(* Pointers and memory. *)

NullPtr == [k |-> "null", n |-> 0, o |-> 0]
DummyPtr == [k |-> "dummy", n |-> 0, o |-> 0]
HeapPtr(b) == [k |-> "heap", n |-> b, o |-> 0]
ExtPtr(e, f) == [k |-> "ext", n |-> e, o |-> f]
\* The address right after the header of instance i.
LocalBufferOf(i) == [k |-> "local", n |-> i, o |-> 0]

PtrAdd(p, d) == [p EXCEPT !.o = @ + d]

\* basic_bidirectional_iterator(): the iterator of no string; of and rev tell which
\* instance an iterator was taken from and whether it is held in a reverse_iterator.
NoIter == [ptr |-> NullPtr, start |-> NullPtr, end |-> NullPtr, of |-> 0, rev |-> FALSE]

DeadHdr == [data |-> NullPtr, len |-> 0, cap |-> 0, lbs |-> 0, owns |-> FALSE]

\* The machine: the variables as one record, so that calls compose.
Cur ==
    [hdr |-> hdr, alive |-> alive, size |-> size, loc |-> loc, heap |-> heap,
     ext |-> ext, dummy |-> dummy, badfree |-> badfree, fault |-> fault,
     halt |-> halt, ndebug |-> ndebug, ret |-> ret]

Halted(m) == m.halt # ""

\* STR_ASSERT(cond).
StrAssert(m, cond, name) ==
    IF Halted(m) \/ cond \/ m.ndebug THEN m ELSE [m EXCEPT !.halt = name]

Fault(m, f) == IF Halted(m) \/ m.fault # "" THEN m ELSE [m EXCEPT !.fault = f]

\* The region a pointer points into: its size, its written bytes, whether it exists.
Region(m, p) ==
    CASE p.k = "dummy" -> [size |-> DummySize, bytes |-> m.dummy, live |-> TRUE]
      [] p.k = "local" -> [size |-> m.size[p.n], bytes |-> m.loc[p.n], live |-> m.alive[p.n]]
      [] p.k = "heap"  -> m.heap[p.n]
      [] p.k = "ext"   -> [size |-> Len(m.ext[p.n]), bytes |-> m.ext[p.n], live |-> TRUE]
      [] OTHER         -> [size |-> 0, bytes |-> <<>>, live |-> FALSE]

Accessible(m, p, i) ==
    LET r == Region(m, p)
    IN  r.live /\ p.o + i >= 0 /\ p.o + i < r.size

\* The byte at p[i]; a byte never written, or outside any region, reads as Uninit.
Rd(m, p, i) ==
    LET r == Region(m, p)
        a == p.o + i
    IN  IF r.live /\ a >= 0 /\ a < Len(r.bytes) THEN r.bytes[a + 1] ELSE Uninit

PutBytes(m, p, bytes) ==
    CASE p.k = "dummy" -> [m EXCEPT !.dummy = bytes]
      [] p.k = "local" -> [m EXCEPT !.loc[p.n] = bytes]
      [] p.k = "heap"  -> [m EXCEPT !.heap[p.n].bytes = bytes]
      [] p.k = "ext"   -> [m EXCEPT !.ext[p.n] = bytes]
      [] OTHER         -> m

\* p[i] = v.  A write outside the region is undefined: it is recorded and lost.
Wr(m, p, i, v) ==
    LET r == Region(m, p)
        a == p.o + i
        n == Max(Len(r.bytes), a + 1)
    IN  IF Halted(m) THEN m
        ELSE IF ~Accessible(m, p, i) THEN Fault(m, "write")
        ELSE PutBytes(m, p, [x \in 1..n |->
                 IF x = a + 1 THEN v
                 ELSE IF x <= Len(r.bytes) THEN r.bytes[x] ELSE Uninit])

\* p[at .. at+Len(s)-1] = s, byte by byte.
RECURSIVE WrSeq(_, _, _, _)
WrSeq(m, p, at, s) ==
    IF s = <<>> THEN m
    ELSE WrSeq(Wr(m, p, at, Head(s)), p, at + 1, Tail(s))

\* The bytes p[0 .. n-1] as they read.
RdSeq(m, p, n) == [x \in 1..Max(n, 0) |-> Rd(m, p, x - 1)]

\* How many bytes of p can be read before the region ends.
Readable(m, p) ==
    LET r == Region(m, p)
    IN  IF r.live THEN Max(Min(Len(r.bytes), r.size) - p.o, 0) ELSE 0

\* std::strlen(p): the index of the first NUL; the whole readable part when
\* there is none (the scan then runs off the region).
StrLen(m, p) ==
    LET n == Readable(m, p)
        z == {x \in 0..(n - 1) : Rd(m, p, x) = NUL}
    IN  IF z = {} THEN n ELSE CHOOSE x \in z : \A y \in z : x <= y

Terminated(m, p) == \E x \in 0..(Readable(m, p) - 1) : Rd(m, p, x) = NUL

\* The C string at p, without its terminator.
CStr(m, p) == RdSeq(m, p, StrLen(m, p))

\* std::memcpy(dst, src, n) and std::memmove(dst, src, n).
MemCpy(m, dst, src, n) ==
    LET m1 == IF n < 0 \/ \E x \in 0..(n - 1) : ~Accessible(m, src, x)
              THEN Fault(m, "read") ELSE m
    IN  WrSeq(m1, dst, 0, RdSeq(m, src, n))

\* std::strcpy(dst, src): the string and its terminator.
StrCpy(m, dst, src) ==
    IF Terminated(m, src)
    THEN WrSeq(m, dst, 0, RdSeq(m, src, StrLen(m, src) + 1))
    ELSE WrSeq(Fault(m, "read"), dst, 0, RdSeq(m, src, StrLen(m, src)))

\* std::memset(dst, c, n).
MemSet(m, dst, c, n) == WrSeq(m, dst, 0, [x \in 1..Max(n, 0) |-> c])

\* STR_MEM_ALLOC(count): a new block; a count no size_t can hold returns null.
MemAlloc(m, count) ==
    IF Halted(m) THEN m
    ELSE [m EXCEPT !.heap = Append(@, [size |-> Max(count, 0), bytes |-> <<>>,
                                       live |-> count >= 0])]

\* The pointer the last STR_MEM_ALLOC returned.
LastAlloc(m) ==
    IF Len(m.heap) > 0 /\ m.heap[Len(m.heap)].live THEN HeapPtr(Len(m.heap)) ELSE NullPtr

\* STR_MEM_FREE(p).
MemFree(m, p) ==
    IF Halted(m) THEN m
    ELSE IF p.k = "heap" /\ p.o = 0 /\ m.heap[p.n].live
    THEN [m EXCEPT !.heap[p.n] = [size |-> 0, bytes |-> <<>>, live |-> FALSE]]
    ELSE [m EXCEPT !.badfree = @ \cup {IF p.k = "heap" THEN "freed" ELSE p.k}]

SetRet(m, v) == IF Halted(m) THEN m ELSE [m EXCEPT !.ret = v]

Pick(upd, f, old) == IF f \in DOMAIN upd THEN upd[f] ELSE old

\* Assignments to header fields of instance i: upd names the fields and their values.
SetFields(m, i, upd) ==
    IF Halted(m) THEN m
    ELSE [m EXCEPT !.hdr[i] = [data |-> Pick(upd, "data", @.data),
                               len  |-> Pick(upd, "len", @.len),
                               cap  |-> Pick(upd, "cap", @.cap),
                               lbs  |-> Pick(upd, "lbs", @.lbs),
                               owns |-> Pick(upd, "owns", @.owns)]]

---------------------------------------------------------------------------
(* The methods of str. *)

using_local_buffer(m, i) ==
    m.hdr[i].data = LocalBufferOf(i) /\ m.hdr[i].lbs # 0

\* if (m_owns_buffer && !using_local_buffer()) { STR_ASSERT(...); STR_MEM_FREE(m_data); }
FreeIfOwned(m, i) ==
    IF m.hdr[i].owns /\ ~using_local_buffer(m, i)
    THEN MemFree(StrAssert(m, m.hdr[i].data # DummyPtr, "free_dummy"), m.hdr[i].data)
    ELSE m

clear_no_free(m, i) ==
    IF m.hdr[i].data # DummyPtr
    THEN SetFields(Wr(m, m.hdr[i].data, 0, NUL), i, [len |-> 0])
    ELSE m

\* The buffer reserve and reserve_discard move to: the local buffer when the
\* request is below m_local_buffer_size, else a new heap block with the slack.
NewBuffer(m, i, new_capacity, extra) ==
    LET Allocated(m1) ==
            [m |-> StrAssert(m1, LastAlloc(m1) # NullPtr, "alloc"),
             data |-> LastAlloc(m1), cap |-> new_capacity + extra]
    IN  IF new_capacity < m.hdr[i].lbs
        THEN [m |-> m, data |-> LocalBufferOf(i), cap |-> m.hdr[i].lbs]
        ELSE Allocated(MemAlloc(m, new_capacity + extra))

reserve(m, i, new_capacity, extra) ==
    LET MoveTo(t) ==
            SetFields(FreeIfOwned(StrCpy(t.m, t.data, m.hdr[i].data), i), i,
                      [data |-> t.data, cap |-> StoreCapacity(t.cap), owns |-> TRUE])
    IN  IF new_capacity <= m.hdr[i].cap THEN StrAssert(m, extra >= 0, "extra")
        ELSE MoveTo(NewBuffer(StrAssert(m, extra >= 0, "extra"), i, new_capacity, extra))

reserve_discard(m, i, new_capacity, extra) ==
    LET StartIn(t) ==
            SetFields(Wr(t.m, t.data, 0, NUL), i,
                      [data |-> t.data, cap |-> StoreCapacity(t.cap),
                       len |-> 0, owns |-> TRUE])
    IN  IF new_capacity <= m.hdr[i].cap THEN StrAssert(m, extra >= 0, "extra")
        ELSE StartIn(NewBuffer(FreeIfOwned(StrAssert(m, extra >= 0, "extra"), i),
                               i, new_capacity, extra))

\* The read of *p: outside every region it is an out-of-bounds read.
Deref(m, p) == IF Accessible(m, p, 0) THEN m ELSE Fault(m, "read")

\* The three STR_ASSERT that open set and append.
SourceAsserts(m, src, first, count) ==
    StrAssert(StrAssert(StrAssert(m, src # NullPtr, "src"), first >= 0, "first"),
              count >= 0, "count")

\* set(const char * src, int first, int count)
set(m, i, src, first, count) ==
    LET Copy(m1) ==
            SetFields(Wr(MemCpy(m1, m1.hdr[i].data, PtrAdd(src, first), count),
                         m1.hdr[i].data, count, NUL),
                      i, [len |-> count, owns |-> TRUE])
        Checked(m0) ==
            IF Rd(m0, PtrAdd(src, first), 0) = NUL \/ count = 0 THEN clear_no_free(m0, i)
            ELSE Copy(IF m0.hdr[i].cap < count + 1
                      THEN reserve_discard(m0, i, count + 1, DefaultExtra) ELSE m0)
    IN  Checked(Deref(SourceAsserts(m, src, first, count), PtrAdd(src, first)))

\* set(const char * src): set(src, 0, str::length(src))
set_cstr(m, i, src) == set(m, i, src, 0, StrLen(m, src))

\* set(const str & src): set(src.c_str(), 0, src.length())
set_str(m, i, j) == set(m, i, m.hdr[j].data, 0, m.hdr[j].len)

\* set_ref that copies the caller's string as set does instead of binding to it.
set_ref_copying(m, i, src, first) ==
    set(m, i, src, first, StrLen(m, PtrAdd(src, first)))

\* set_ref without the release of the buffer it leaves.
set_ref_no_free(m, i, src, first) ==
    LET Checked(m0) ==
            IF Rd(m0, PtrAdd(src, first), 0) = NUL THEN clear_no_free(m0, i)
            ELSE SetFields(m0, i,
                           [data |-> PtrAdd(src, first),
                            len |-> StrLen(m0, PtrAdd(src, first)),
                            cap |-> 0, owns |-> FALSE])
    IN  Checked(Deref(StrAssert(m, src # NullPtr, "src"), PtrAdd(src, first)))

\* set_ref(const char * src, int first)
set_ref(m, i, src, first) ==
    LET Checked(m0) ==
            IF Rd(m0, PtrAdd(src, first), 0) = NUL THEN clear_no_free(m0, i)
            ELSE SetFields(FreeIfOwned(m0, i), i,
                           [data |-> PtrAdd(src, first),
                            len |-> StrLen(m0, PtrAdd(src, first)),
                            cap |-> 0, owns |-> FALSE])
    IN  Checked(Deref(StrAssert(m, src # NullPtr, "src"), PtrAdd(src, first)))

\* append(const char * src, int first, int count)
append(m, i, src, first, count) ==
    LET Copy(m1) ==
            SetFields(Wr(MemCpy(m1, PtrAdd(m1.hdr[i].data, m1.hdr[i].len),
                                PtrAdd(src, first), count),
                         m1.hdr[i].data, m1.hdr[i].len + count, NUL),
                      i, [len |-> m1.hdr[i].len + count])
        Checked(m0) ==
            IF Rd(m0, PtrAdd(src, first), 0) = NUL \/ count = 0 THEN m0
            ELSE Copy(IF m0.hdr[i].cap < m0.hdr[i].len + count + 1
                      THEN reserve(m0, i, m0.hdr[i].len + count + 1, DefaultExtra)
                      ELSE m0)
    IN  Checked(Deref(SourceAsserts(m, src, first, count), PtrAdd(src, first)))

append_cstr(m, i, src) == append(m, i, src, 0, StrLen(m, src))

append_str(m, i, j) == append(m, i, m.hdr[j].data, 0, m.hdr[j].len)

push_back(m, i, c) ==
    LET Put(m1) ==
            SetFields(Wr(Wr(m1, m1.hdr[i].data, m1.hdr[i].len, c),
                         m1.hdr[i].data, m1.hdr[i].len + 1, NUL),
                      i, [len |-> m1.hdr[i].len + 1])
    IN  Put(reserve(m, i, m.hdr[i].len + 2, DefaultExtra))

pop_back(m, i) ==
    IF m.hdr[i].len > 0
    THEN SetFields(Wr(m, m.hdr[i].data, m.hdr[i].len - 1, NUL), i,
                   [len |-> m.hdr[i].len - 1])
    ELSE m

\* valid()
valid(m, i) == m.hdr[i].data # DummyPtr /\ m.hdr[i].len # 0

\* operator[](int index): the character read is the call's result.
subscript(m, i, index) ==
    LET Read(m1) ==
            IF Halted(m1) THEN m1
            ELSE SetRet(Deref(m1, PtrAdd(m1.hdr[i].data, index)),
                        Rd(m1, m1.hdr[i].data, index))
    IN  Read(StrAssert(StrAssert(StrAssert(m, valid(m, i), "valid"),
                                 index >= 0, "index"),
                       index < m.hdr[i].len, "index"))

truncate(m, i, max_len) ==
    IF max_len < m.hdr[i].len
    THEN SetFields(Wr(m, m.hdr[i].data, max_len, NUL), i, [len |-> max_len])
    ELSE m

\* clear() without its reset of m_capacity on the way back to the local buffer.
clear_keeps_capacity(m, i) ==
    IF m.hdr[i].lbs > 0
    THEN SetFields(Wr(FreeIfOwned(m, i), LocalBufferOf(i), 0, NUL), i,
                   [data |-> LocalBufferOf(i), len |-> 0, owns |-> TRUE])
    ELSE SetFields(FreeIfOwned(m, i), i,
                   [data |-> DummyPtr, len |-> 0, cap |-> 0, owns |-> FALSE])

clear(m, i) ==
    IF m.hdr[i].lbs > 0
    THEN SetFields(Wr(FreeIfOwned(m, i), LocalBufferOf(i), 0, NUL), i,
                   [data |-> LocalBufferOf(i), len |-> 0,
                    cap |-> StoreCapacity(m.hdr[i].lbs), owns |-> TRUE])
    ELSE SetFields(FreeIfOwned(m, i), i,
                   [data |-> DummyPtr, len |-> 0, cap |-> 0, owns |-> FALSE])

shrink_to_fit(m, i) ==
    LET MoveTo(m1) ==
            SetFields(
                MemFree(StrAssert(MemCpy(StrAssert(m1, LastAlloc(m1) # NullPtr, "alloc"),
                                         LastAlloc(m1), m.hdr[i].data, m.hdr[i].len + 1),
                                  m.hdr[i].data # DummyPtr, "free_dummy"),
                        m.hdr[i].data),
                i, [data |-> LastAlloc(m1), cap |-> StoreCapacity(m.hdr[i].len + 1)])
    IN  IF ~m.hdr[i].owns \/ using_local_buffer(m, i) THEN m
        ELSE IF m.hdr[i].cap <= m.hdr[i].len + 1 THEN m
        ELSE MoveTo(MemAlloc(m, m.hdr[i].len + 1))

\* The two STR_ASSERT that open resize and resize_discard.
ResizeAsserts(m, new_len, extra) ==
    StrAssert(StrAssert(m, new_len >= 0, "new_len"), extra >= 0, "extra")

resize(m, i, new_len, fill_char, extra) ==
    LET Fill(m1) ==
            SetFields(Wr(MemSet(m1, PtrAdd(m1.hdr[i].data, m1.hdr[i].len),
                                fill_char, new_len),
                         m1.hdr[i].data, m1.hdr[i].len + new_len, NUL),
                      i, [len |-> m1.hdr[i].len + new_len])
    IN  IF new_len = 0 THEN clear_no_free(ResizeAsserts(m, new_len, extra), i)
        ELSE Fill(reserve(ResizeAsserts(m, new_len, extra), i,
                          m.hdr[i].len + new_len + 1, extra))

resize_discard(m, i, new_len, fill_char, extra) ==
    LET Fill(m1) ==
            SetFields(Wr(MemSet(m1, m1.hdr[i].data, fill_char, new_len),
                         m1.hdr[i].data, new_len, NUL),
                      i, [len |-> new_len])
    IN  IF new_len = 0 THEN clear_no_free(ResizeAsserts(m, new_len, extra), i)
        ELSE Fill(reserve_discard(ResizeAsserts(m, new_len, extra), i, new_len + 1, extra))

---------------------------------------------------------------------------
(* Formatted writes.  A call of the formatting primitive is a record        *)
(* [ok, text]: the text the format and its arguments expand to, or an       *)
(* encoding error.                                                          *)

\* What std::vsnprintf returns: the length of the whole text, negative on error.
VsnResult(f) == IF f.ok THEN Len(f.text) ELSE 0 - 1

\* What std::vsnprintf(dst, n, ...) writes: at most n - 1 characters and a
\* terminator, nothing when n is 0; a negative n is a huge size_t.
VsnWrite(m, dst, n, f) ==
    IF ~f.ok \/ n = 0 THEN m
    ELSE WrSeq(m, dst, 0,
               SubSeq(f.text, 1, IF n < 0 THEN Len(f.text) ELSE Min(Len(f.text), n - 1))
                   \o <<NUL>>)

\* The first std::vsnprintf of setfv and appendfv, at offset at of the buffer.
FirstPass(m, i, at, f) ==
    IF m.hdr[i].owns
    THEN VsnWrite(m, PtrAdd(m.hdr[i].data, at), m.hdr[i].cap - at, f)
    ELSE m

setfv(m, i, f) ==
    LET SecondPass(m3) == VsnWrite(m3, m3.hdr[i].data, VsnResult(f) + 1, f)
        Finish(m4) ==
            IF VsnResult(f) >= 0
            THEN SetRet(SetFields(m4, i, [len |-> VsnResult(f), owns |-> TRUE]), 1)
            ELSE SetRet(clear_no_free(m4, i), 0)
        Grow(m2) ==
            IF m.hdr[i].cap < VsnResult(f) + 1
            THEN SecondPass(reserve_discard(m2, i, VsnResult(f) + 1, DefaultExtra))
            ELSE m2
    IN  Finish(Grow(StrAssert(FirstPass(m, i, 0, f), VsnResult(f) >= 0, "vsnprintf")))

setfv_no_grow(m, i, f) ==
    LET Terminate(m1, result) ==
            SetRet(SetFields(Wr(m1, m.hdr[i].data, result, NUL), i,
                             [len |-> result, owns |-> TRUE]), 1)
        Finish(m1) ==
            IF VsnResult(f) < 0 THEN SetRet(clear_no_free(m1, i), 0)
            ELSE Terminate(m1, IF VsnResult(f) >= m.hdr[i].cap
                               THEN m.hdr[i].cap - 1 ELSE VsnResult(f))
    IN  Finish(VsnWrite(m, m.hdr[i].data, m.hdr[i].cap, f))

appendfv(m, i, f) ==
    LET SecondPass(m3) ==
            VsnWrite(m3, PtrAdd(m3.hdr[i].data, m.hdr[i].len), VsnResult(f) + 1, f)
        Grow(m2) ==
            IF m.hdr[i].cap < m.hdr[i].len + VsnResult(f) + 1
            THEN SecondPass(reserve(m2, i, m.hdr[i].len + VsnResult(f) + 1, DefaultExtra))
            ELSE m2
        Finish(m4) ==
            SetRet(SetFields(m4, i, [owns |-> TRUE]), IF VsnResult(f) >= 0 THEN 1 ELSE 0)
    IN  Finish(Grow(StrAssert(FirstPass(m, i, m.hdr[i].len, f),
                              VsnResult(f) >= 0, "vsnprintf")))

---------------------------------------------------------------------------
(* Trimming and case mapping. *)

IsSpace(c) == c = ChSpace

ToUpper(c) ==
    IF c = Alphabet.lowerA THEN Alphabet.upperA
    ELSE IF c = Alphabet.lowerB THEN Alphabet.upperB ELSE c

ToLower(c) ==
    IF c = Alphabet.upperA THEN Alphabet.lowerA
    ELSE IF c = Alphabet.upperB THEN Alphabet.lowerB ELSE c

\* while (new_len != 0 && std::isspace(*ptr)) { *ptr-- = '\0'; --new_len; }
RECURSIVE TrimRightLoop(_, _, _)
TrimRightLoop(m, i, new_len) ==
    IF new_len # 0 /\ IsSpace(Rd(m, m.hdr[i].data, new_len - 1))
    THEN TrimRightLoop(Wr(m, m.hdr[i].data, new_len - 1, NUL), i, new_len - 1)
    ELSE SetFields(m, i, [len |-> new_len])

trim_right(m, i) ==
    IF m.hdr[i].len = 0 THEN m ELSE TrimRightLoop(m, i, m.hdr[i].len)

\* str::skip_leading_whitespace(str) - str
RECURSIVE SkipLeadingWhitespace(_, _, _)
SkipLeadingWhitespace(m, p, d) ==
    IF Rd(m, p, d) # NUL /\ IsSpace(Rd(m, p, d))
    THEN SkipLeadingWhitespace(m, p, d + 1) ELSE d

trim_left(m, i) ==
    LET Shift(displacement) ==
            IF displacement <= 0 THEN m
            ELSE SetFields(
                     Wr(IF m.hdr[i].len - displacement # 0
                        THEN MemCpy(m, m.hdr[i].data, PtrAdd(m.hdr[i].data, displacement),
                                    m.hdr[i].len - displacement)
                        ELSE m,
                        m.hdr[i].data, m.hdr[i].len - displacement, NUL),
                     i, [len |-> m.hdr[i].len - displacement])
    IN  IF m.hdr[i].len = 0 THEN m
        ELSE Shift(SkipLeadingWhitespace(m, m.hdr[i].data, 0))

trim(m, i) == trim_left(trim_right(m, i), i)

\* for (char * ptr = m_data; *ptr != '\0'; ++ptr) *ptr = map(*ptr);
RECURSIVE MapLoop(_, _, _, _)
MapLoop(m, p, at, upper) ==
    IF Rd(m, p, at) = NUL THEN m
    ELSE IF at >= Readable(m, p) THEN Fault(m, "read")
    ELSE MapLoop(Wr(m, p, at, IF upper THEN ToUpper(Rd(m, p, at)) ELSE ToLower(Rd(m, p, at))),
                 p, at + 1, upper)

to_upper(m, i) == MapLoop(m, m.hdr[i].data, 0, TRUE)
to_lower(m, i) == MapLoop(m, m.hdr[i].data, 0, FALSE)

---------------------------------------------------------------------------
(* Construction, destruction, swap and move. *)

\* Storage for an instance of str_sized<n> (n = 0: str) comes into being.
Place(m, i, n) ==
    IF Halted(m) THEN m
    ELSE [m EXCEPT !.alive[i] = TRUE, !.size[i] = n, !.loc[i] = <<>>]

\* str::str()
str_default(m, i) ==
    SetFields(m, i, [data |-> DummyPtr, len |-> 0, cap |-> 0, lbs |-> 0, owns |-> FALSE])

\* str::str(int local_buf_size)
str_local(m, i, local_buf_size) ==
    Wr(StrAssert(SetFields(m, i, [data |-> LocalBufferOf(i), len |-> 0,
                                  cap |-> StoreCapacity(local_buf_size),
                                  lbs |-> StoreLocalSize(local_buf_size),
                                  owns |-> TRUE]),
                 local_buf_size < LocalSizeLimit, "local_buf_size"),
       LocalBufferOf(i), 0, NUL)

\* str_sized<Size>::str_sized() for Size > 0, str::str() for Size = 0.
construct(m, i, n) ==
    IF n = 0 THEN str_default(Place(m, i, n), i) ELSE str_local(Place(m, i, n), i, n)

\* The storage of a destroyed instance ends.
Unplace(m, i) ==
    IF Halted(m) THEN m
    ELSE [m EXCEPT !.alive[i] = FALSE, !.hdr[i] = DeadHdr, !.loc[i] = <<>>,
                   !.size[i] = IF i = Tmp THEN 0 ELSE @]

\* str::~str()
destroy(m, i) == Unplace(FreeIfOwned(m, i), i)

\* The five STR_SWAP of the lightweight branch.
swap_fields(m, a, b) ==
    IF Halted(m) THEN m
    ELSE [m EXCEPT !.hdr[a] = m.hdr[b], !.hdr[b] = m.hdr[a]]

\* tmp{ rhs }; rhs = lhs; lhs = tmp; with tmp a str_sized<n> (n = 0: a str)
swap_copy(m, a, b, n) ==
    destroy(set_str(set_str(set_str(construct(m, Tmp, n), Tmp, b), b, a), a, Tmp), Tmp)

\* swap(str & lhs, str & rhs)
swap(m, a, b) ==
    IF using_local_buffer(m, a) \/ using_local_buffer(m, b)
    THEN swap_copy(m, a, b, 0)
    ELSE swap_fields(m, a, b)

\* swap(str_sized<Size> & lhs, str_sized<Size> & rhs)
swap_sized(m, a, b) == swap_copy(m, a, b, m.size[a])

\* The branch of the move constructor and of move assignment for a source
\* in its local buffer: set(rhs); rhs.clear_no_free();
move_by_copy(m, a, b) == clear_no_free(set_str(m, a, b), b)

\* The body of the move constructor, after the delegation to str().
move_into(m, a, b) ==
    IF using_local_buffer(m, b) THEN move_by_copy(m, a, b) ELSE swap(m, a, b)

\* str::str(str && rhs)
move_construct(m, a, b) == move_into(str_default(Place(m, a, 0), a), a, b)

\* str::operator = (str && rhs)
move_assign(m, a, b) ==
    IF using_local_buffer(m, b) THEN move_by_copy(m, a, b)
    ELSE destroy(swap(swap(str_default(Place(m, Tmp, 0), Tmp), a, b), Tmp, b), Tmp)

---------------------------------------------------------------------------
(* The inputs the calls are given. *)

\* The Size arguments of the two instances a behaviour is about.
Sizes == {<<0, 0>>, <<0, 2>>, <<2, 2>>, <<2, 3>>}
\* Capacities asked of reserve and reserve_discard.
ReserveArgs == {1, 4, Pow2(CapacityBits - 1)}
\* dynamic_alloc_extra: the default and none.
ExtraArgs == {DefaultExtra, 0}
\* The texts a format expands to, and the encoding error.
FmtArgs ==
    {[ok |-> TRUE, text |-> <<ChLowerB>>], [ok |-> FALSE, text |-> <<>>]}
CharArgs == {ChLowerA}

\* A call: its name, the instance it is made on, the other instance or the
\* caller's string it is given, and its numeric arguments.
Call(op, i, j, n, k) == [op |-> op, i |-> i, j |-> j, n |-> n, k |-> k]

\* The calls the model leaves out: those past its bounds.
Fits(m) ==
    /\ Len(m.heap) <= MaxAllocs
    /\ \A i \in Inst : m.alive[i] => m.hdr[i].len <= MaxLen

\* A call returns (or stops in STR_ASSERT), leaving the machine as m.
Becomes(m, call) ==
    /\ Fits(m)
    /\ hdr' = m.hdr
    /\ alive' = m.alive
    /\ size' = m.size
    /\ loc' = m.loc
    /\ heap' = m.heap
    /\ ext' = m.ext
    /\ dummy' = m.dummy
    /\ badfree' = m.badfree
    /\ fault' = m.fault
    /\ halt' = m.halt
    /\ ndebug' = m.ndebug
    /\ ret' = m.ret
    /\ last' = call
    /\ calls' = calls + 1
    /\ iter' = iter

\* The program runs on: no STR_ASSERT has stopped it.
Running == halt = "" /\ calls < MaxCalls
Void(m) == SetRet(m, 0 - 1)

InitMachine(sz, nd) ==
    [hdr |-> [i \in AllInst |-> DeadHdr], alive |-> [i \in AllInst |-> FALSE],
     size |-> [i \in AllInst |-> 0], loc |-> [i \in AllInst |-> <<>>],
     heap |-> <<>>, ext |-> ExtInit, dummy |-> [x \in 1..DummySize |-> NUL],
     badfree |-> {}, fault |-> "", halt |-> "", ndebug |-> nd, ret |-> 0 - 1]

\* The constructors an instance is made with: the default constructor, the
\* one that copies a C string, and (a plain str only) str_ref's.
Ctors(n) == IF n = 0 THEN {"default", "cstr", "ref"} ELSE {"default", "cstr"}

\* str_sized<n>(const char * rhs), str(const char * rhs), str_ref(const char * rhs)
construct_with(m, i, n, c, e) ==
    CASE c = "cstr" -> set_cstr(construct(m, i, n), i, ExtPtr(e, 0))
      [] c = "ref"  -> set_ref(construct(m, i, n), i, ExtPtr(e, 0), 0)
      [] OTHER      -> construct(m, i, n)

\* The variables hold the machine m.
Holds(m) ==
    /\ hdr = m.hdr
    /\ alive = m.alive
    /\ size = m.size
    /\ loc = m.loc
    /\ heap = m.heap
    /\ ext = m.ext
    /\ dummy = m.dummy
    /\ badfree = m.badfree
    /\ fault = m.fault
    /\ halt = m.halt
    /\ ndebug = m.ndebug
    /\ ret = m.ret
    /\ iter = NoIter

\* The state once the program has constructed its two instances.
InitWith(sz, nd, c1, c2) ==
    /\ Holds(Void(construct_with(construct_with(InitMachine(sz, nd), 1, sz[1], c1, 1),
                                 2, sz[2], c2, 1)))
    /\ last = Call("construct", 0, 0, 0, 0)
    /\ calls = 0

Init ==
    \E sz \in Sizes, nd \in BOOLEAN :
        \E c1 \in Ctors(sz[1]), c2 \in {"default", "cstr"} : InitWith(sz, nd, c1, c2)

---------------------------------------------------------------------------
(* The calls. *)

ExtLen(e) == Len(ExtInit[e]) - 1

Set(i, e) ==
    /\ Running /\ alive[i]
    /\ Becomes(Void(set_cstr(Cur, i, ExtPtr(e, 0))),
               Call("set", i, e, 0, StrLen(Cur, ExtPtr(e, 0))))

SetN(i, e, first, count) ==
    /\ Running /\ alive[i]
    /\ first + count <= ExtLen(e)
    /\ Becomes(Void(set(Cur, i, ExtPtr(e, 0), first, count)), Call("set", i, e, first, count))

SetStr(i, j) ==
    /\ Running /\ alive[i] /\ alive[j] /\ i # j
    /\ Becomes(Void(set_str(Cur, i, j)), Call("set_str", i, j, 0, 0))

SetRef(i, e, first) ==
    /\ Running /\ alive[i]
    /\ first <= ExtLen(e)
    /\ Becomes(Void(set_ref(Cur, i, ExtPtr(e, 0), first)), Call("set_ref", i, e, first, 0))

AppendC(i, e) ==
    /\ Running /\ alive[i]
    /\ Becomes(Void(append_cstr(Cur, i, ExtPtr(e, 0))),
               Call("append", i, e, 0, StrLen(Cur, ExtPtr(e, 0))))

AppendStr(i, j) ==
    /\ Running /\ alive[i] /\ alive[j] /\ i # j
    /\ Becomes(Void(append_str(Cur, i, j)), Call("append_str", i, j, 0, 0))

PushBack(i, c) ==
    /\ Running /\ alive[i]
    /\ Becomes(Void(push_back(Cur, i, c)), Call("push_back", i, 0, c, 0))

PopBack(i) ==
    /\ Running /\ alive[i]
    /\ Becomes(Void(pop_back(Cur, i)), Call("pop_back", i, 0, 0, 0))

Setf(i, f) ==
    /\ Running /\ alive[i]
    /\ Becomes(setfv(Cur, i, f), Call("setf", i, 0, VsnResult(f), 0))

SetfNoGrow(i, f) ==
    /\ Running /\ alive[i]
    /\ Becomes(setfv_no_grow(Cur, i, f), Call("setf_no_grow", i, 0, VsnResult(f), 0))

Appendf(i, f) ==
    /\ Running /\ alive[i]
    /\ Becomes(appendfv(Cur, i, f), Call("appendf", i, 0, VsnResult(f), 0))

Truncate(i, n) ==
    /\ Running /\ alive[i]
    /\ Becomes(Void(truncate(Cur, i, n)), Call("truncate", i, 0, n, 0))

Clear(i) ==
    /\ Running /\ alive[i]
    /\ Becomes(Void(clear(Cur, i)), Call("clear", i, 0, 0, 0))

ClearNoFree(i) ==
    /\ Running /\ alive[i]
    /\ Becomes(Void(clear_no_free(Cur, i)), Call("clear_no_free", i, 0, 0, 0))

ShrinkToFit(i) ==
    /\ Running /\ alive[i]
    /\ Becomes(Void(shrink_to_fit(Cur, i)), Call("shrink_to_fit", i, 0, 0, 0))

Reserve(i, n, x) ==
    /\ Running /\ alive[i]
    /\ Becomes(Void(reserve(Cur, i, n, x)), Call("reserve", i, 0, n, x))

ReserveDiscard(i, n, x) ==
    /\ Running /\ alive[i]
    /\ Becomes(Void(reserve_discard(Cur, i, n, x)), Call("reserve_discard", i, 0, n, x))

Resize(i, n, c) ==
    /\ Running /\ alive[i]
    /\ Becomes(Void(resize(Cur, i, n, c, DefaultExtra)), Call("resize", i, 0, n, c))

ResizeDiscard(i, n, c) ==
    /\ Running /\ alive[i]
    /\ Becomes(Void(resize_discard(Cur, i, n, c, DefaultExtra)),
               Call("resize_discard", i, 0, n, c))

TrimLeft(i) ==
    /\ Running /\ alive[i]
    /\ Becomes(Void(trim_left(Cur, i)), Call("trim_left", i, 0, 0, 0))

TrimRight(i) ==
    /\ Running /\ alive[i]
    /\ Becomes(Void(trim_right(Cur, i)), Call("trim_right", i, 0, 0, 0))

Trim(i) ==
    /\ Running /\ alive[i]
    /\ Becomes(Void(trim(Cur, i)), Call("trim", i, 0, 0, 0))

ToUpperCase(i) ==
    /\ Running /\ alive[i]
    /\ Becomes(Void(to_upper(Cur, i)), Call("to_upper", i, 0, 0, 0))

ToLowerCase(i) ==
    /\ Running /\ alive[i]
    /\ Becomes(Void(to_lower(Cur, i)), Call("to_lower", i, 0, 0, 0))

\* swap(a, b): two str_sized of one Size select the template, all else the friend.
swap_call(m, a, b) ==
    IF m.size[a] = m.size[b] /\ m.size[a] > 0 THEN swap_sized(m, a, b) ELSE swap(m, a, b)

Swap(i, j) ==
    /\ Running /\ alive[i] /\ alive[j] /\ i # j
    /\ Becomes(Void(swap_call(Cur, i, j)), Call("swap", i, j, 0, 0))

\* a = std::move(b), a being a str.
MoveAssign(i, j) ==
    /\ Running /\ alive[i] /\ alive[j] /\ i # j
    /\ size[i] = 0
    /\ Becomes(Void(move_assign(Cur, i, j)), Call("move_assign", i, j, 0, 0))

\* str a{ std::move(b) }
MoveConstruct(i, j) ==
    /\ Running /\ ~alive[i] /\ alive[j] /\ i # j
    /\ size[i] = 0
    /\ Becomes(Void(move_construct(Cur, i, j)), Call("move_construct", i, j, 0, 0))

Destroy(i) ==
    /\ Running /\ alive[i]
    /\ Becomes(Void(destroy(Cur, i)), Call("destroy", i, 0, 0, 0))

Construct(i) ==
    /\ Running /\ ~alive[i]
    /\ Becomes(Void(construct(Cur, i, size[i])), Call("construct", i, 0, 0, 0))

\* str_ref a{ src }
ConstructRef(i, e) ==
    /\ Running /\ ~alive[i]
    /\ size[i] = 0
    /\ Becomes(Void(construct_with(Cur, i, 0, "ref", e)), Call("str_ref", i, e, 0, 0))

\* Instance 1 is given every call; instance 2, its partner in swap, move and
\* copy, only the calls that set it up.
Subject == {1}

Next ==
    \/ \E i \in Inst, e \in ExtId : Set(i, e)
    \/ \E i \in Subject, e \in ExtId, first \in 0..1, count \in 0..1 : SetN(i, e, first, count)
    \/ \E i \in Inst, j \in Inst : SetStr(i, j)
    \/ \E i \in Inst, e \in ExtId, first \in 0..1 : SetRef(i, e, first)
    \/ \E i \in Subject, e \in ExtId : AppendC(i, e)
    \/ \E i \in Subject, j \in Inst : AppendStr(i, j)
    \/ \E i \in Subject, c \in CharArgs : PushBack(i, c)
    \/ \E i \in Subject : PopBack(i)
    \/ \E i \in Subject, f \in FmtArgs : Setf(i, f)
    \/ \E i \in Subject, f \in FmtArgs : SetfNoGrow(i, f)
    \/ \E i \in Subject, f \in FmtArgs : Appendf(i, f)
    \/ \E i \in Subject, n \in 0..1 : Truncate(i, n)
    \/ \E i \in Inst : Clear(i)
    \/ \E i \in Subject : ClearNoFree(i)
    \/ \E i \in Subject : ShrinkToFit(i)
    \/ \E i \in Subject, n \in ReserveArgs, x \in ExtraArgs : Reserve(i, n, x)
    \/ \E i \in Subject, n \in ReserveArgs, x \in ExtraArgs : ReserveDiscard(i, n, x)
    \/ \E i \in Subject, n \in 0..1, c \in CharArgs : Resize(i, n, c)
    \/ \E i \in Subject, n \in 0..1, c \in CharArgs : ResizeDiscard(i, n, c)
    \/ \E i \in Subject : TrimLeft(i)
    \/ \E i \in Subject : TrimRight(i)
    \/ \E i \in Subject : Trim(i)
    \/ \E i \in Subject : ToUpperCase(i)
    \/ \E i \in Subject : ToLowerCase(i)
    \/ \E i \in Inst, j \in Inst : Swap(i, j)
    \/ \E i \in Inst, j \in Inst : MoveAssign(i, j)
    \/ \E i \in Inst, j \in Inst : MoveConstruct(i, j)
    \/ \E i \in Inst : Destroy(i)
    \/ \E i \in Inst : Construct(i)
    \/ \E i \in Inst, e \in ExtId : ConstructRef(i, e)

Spec == Init /\ [][Next]_vars

---------------------------------------------------------------------------
(* Sized instances of every Size the static_assert of str_sized admits. *)

LocalSizes == 1..(LocalSizeLimit - 1)

\* str_sized<n> s; for some n the compiler accepts.
InitSized ==
    \E n \in LocalSizes, nd \in BOOLEAN :
        /\ Holds(Void(construct(InitMachine(<<n, 0>>, nd), 1, n)))
        /\ last = Call("construct", 1, 0, 0, 0)
        /\ calls = 0

NextSized ==
    \/ \E i \in Subject : Clear(i)
    \/ \E i \in Subject, e \in ExtId : Set(i, e)
    \/ \E i \in Subject : Destroy(i)
    \/ \E i \in Subject : Construct(i)

SpecSized == InitSized /\ [][NextSized]_vars

---------------------------------------------------------------------------
(* Programs that begin by swapping the two instances they constructed. *)

InitSwapped ==
    \E sz \in Sizes, nd \in BOOLEAN :
        \E c1 \in Ctors(sz[1]), c2 \in {"default", "cstr"} :
            /\ Holds(Void(swap_call(
                   construct_with(construct_with(InitMachine(sz, nd), 1, sz[1], c1, 1),
                                  2, sz[2], c2, 1), 1, 2)))
            /\ last = Call("swap", 1, 2, 0, 0)
            /\ calls = 0

SpecSwapped == InitSwapped /\ [][Next]_vars

---------------------------------------------------------------------------
(* Programs that format: the formatted text may be longer than a small buffer. *)

FmtLong == FmtArgs \cup {[ok |-> TRUE, text |-> <<ChLowerB, ChLowerA>>]}

InitFormat == Init \/ InitSwapped

NextFormat ==
    \/ \E i \in Subject, f \in FmtLong : Setf(i, f)
    \/ \E i \in Subject, f \in FmtLong : SetfNoGrow(i, f)
    \/ \E i \in Subject, f \in FmtLong : Appendf(i, f)
    \/ \E i \in Subject : Clear(i)
    \/ \E i \in Subject : ShrinkToFit(i)
    \/ \E i \in Subject : PopBack(i)
    \/ \E i \in Subject, e \in ExtId, first \in 0..1 : SetRef(i, e, first)
    \/ \E i \in Subject, n \in ReserveArgs, x \in ExtraArgs : Reserve(i, n, x)

SpecFormat == InitFormat /\ [][NextFormat]_vars

---------------------------------------------------------------------------
(* Callers that break a precondition: a null source, a negative argument, an
   index or offset out of bounds, a count past the source's terminator. *)

BadIndex == {0 - 1, 0, 2}
BadFirst == {0 - 1, 1, 3}
BadCount == {0 - 1, 2}

IndexAt(i, index) ==
    /\ Running /\ alive[i]
    /\ Becomes(subscript(Cur, i, index), Call("operator[]", i, 0, index, 0))

SetRefOutside(i, e, first) ==
    /\ Running /\ alive[i]
    /\ first < 0 \/ first > ExtLen(e)
    /\ Becomes(Void(set_ref(Cur, i, ExtPtr(e, 0), first)), Call("set_ref", i, e, first, 0))

SetPast(i, e, first, count) ==
    /\ Running /\ alive[i]
    /\ first < 0 \/ count < 0 \/ first + count > ExtLen(e)
    /\ Becomes(Void(set(Cur, i, ExtPtr(e, 0), first, count)), Call("set", i, e, first, count))

AppendPast(i, e, first, count) ==
    /\ Running /\ alive[i]
    /\ first < 0 \/ count < 0 \/ first + count > ExtLen(e)
    /\ Becomes(Void(append(Cur, i, ExtPtr(e, 0), first, count)),
               Call("append", i, e, first, count))

SetNull(i) ==
    /\ Running /\ alive[i]
    /\ Becomes(Void(set(Cur, i, NullPtr, 0, 0)), Call("set", i, 0, 0, 0))

SetRefNull(i) ==
    /\ Running /\ alive[i]
    /\ Becomes(Void(set_ref(Cur, i, NullPtr, 0)), Call("set_ref", i, 0, 0, 0))

NextMisuse ==
    \/ \E i \in Subject, index \in BadIndex : IndexAt(i, index)
    \/ \E i \in Subject : Truncate(i, 0 - 1)
    \/ \E i \in Subject, e \in ExtId, first \in BadFirst : SetRefOutside(i, e, first)
    \/ \E i \in Subject, e \in ExtId, first \in {0 - 1, 0, 1}, count \in BadCount :
            SetPast(i, e, first, count)
    \/ \E i \in Subject, e \in ExtId, first \in {0 - 1, 0, 1}, count \in BadCount :
            AppendPast(i, e, first, count)
    \/ \E i \in Subject : SetNull(i)
    \/ \E i \in Subject : SetRefNull(i)

SpecMisuse == Init /\ [][NextMisuse]_vars

---------------------------------------------------------------------------
(* What the accessors report. *)

c_str(i) == hdr[i].data
length(i) == hdr[i].len
capacity(i) == hdr[i].cap
owns_buffer(i) == hdr[i].owns

\* The instances a program can observe: constructed, and no STR_ASSERT fired.
Observable == {i \in Inst : alive[i] /\ halt = ""}

\* The string an instance reads as through c_str().
Content(i) == CStr(Cur, hdr[i].data)

---------------------------------------------------------------------------
(* The properties. *)

\* C1: whenever a call has returned, data[length()] of every instance is the
\* terminator.
C1_TerminatorAtLength ==
    \A i \in Observable : Rd(Cur, c_str(i), length(i)) = NUL

\* The calls that, on an instance that does not own its buffer, have nothing
\* to write: set with an empty source or a count of 0, set_ref with an empty
\* source, resize(0), clear_no_free, truncate, pop_back, the trims, the case
\* mappings, setf_no_grow, swap and move.
WritesNothing(c) ==
    \/ c.op = "set" /\ (c.k = 0 \/ ExtInit[c.j][c.n + 1] = NUL)
    \/ c.op = "set_ref" /\ ExtInit[c.j][c.n + 1] = NUL
    \/ c.op \in {"resize", "resize_discard"} /\ c.n = 0
    \/ c.op \in {"clear_no_free", "truncate", "pop_back", "trim", "trim_left",
                 "trim_right", "to_upper", "to_lower", "setf_no_grow",
                 "swap", "move_assign", "move_construct"}

\* The instances a call is made on: its object, and the partner of a swap or move.
Parties(c) ==
    IF c.op \in {"swap", "move_assign", "move_construct"} THEN {c.i, c.j} ELSE {c.i}

\* C2: a call that has nothing to write, made on an instance whose
\* owns_buffer() is false, leaves the bytes of the shared empty string and of
\* the caller's strings as they were.
C2_NoWriteWhenNotOwning ==
    [][(/\ WritesNothing(last')
        /\ \E i \in Parties(last') : alive[i] /\ ~owns_buffer(i))
       => (dummy' = dummy /\ ext' = ext)]_vars

\* C3: an instance that owns its buffer has room for its string and the
\* terminator: capacity() >= length() + 1.
C3_RoomForTerminator ==
    \A i \in Observable : owns_buffer(i) => capacity(i) >= length(i) + 1

C5_LocalSizeFixed ==
    [][\A i \in Inst : (alive[i] /\ alive'[i]) => hdr'[i].lbs = hdr[i].lbs]_vars

\* C6: STR_MEM_FREE is never handed the shared empty string, a local buffer
\* or a caller's string.
C6_FreesOnlyHeap == badfree \cap {"dummy", "local", "ext"} = {}

\* The instances whose buffer is heap block b.
Holders(b) == {i \in AllInst : alive[i] /\ owns_buffer(i) /\ c_str(i) = HeapPtr(b)}

\* C7: every heap block is released exactly once: no block is freed twice, a
\* block not yet freed is the buffer of exactly one living instance (whose
\* destructor frees it), and once every instance is destroyed none is left.
C7_FreedExactlyOnce ==
    halt = "" =>
        /\ "freed" \notin badfree
        /\ \A b \in DOMAIN heap : heap[b].live => Cardinality(Holders(b)) = 1

\* Both instances are destroyed, one of which had allocated.
C7_Witness ==
    /\ halt = "" /\ \A i \in AllInst : ~alive[i]
    /\ last.op = "destroy"
    /\ heap # <<>>

\* The largest capacity the documentation promises: 2 MiB.
DocumentedLimit == Pow2(CapacityBits)

\* C8: after reserve(n) has returned, n within the documented limit,
\* capacity() >= n: no capacity is stored wrapped or truncated.
C8_CapacityNeverWraps ==
    (last.op = "reserve" /\ last.i \in Observable /\ last.n <= DocumentedLimit)
        => capacity(last.i) >= last.n

\* C9: a default-constructed str_sized<N>, and one that clear() was called
\* on, is in its local buffer, empty, with capacity N, owning, and with N as
\* its stored local buffer size.
C9_SizedDefault ==
    \A i \in Observable :
        (size[i] > 0 /\ last.i = i /\ last.op \in {"construct", "clear"})
            => /\ c_str(i) = LocalBufferOf(i)
               /\ length(i) = 0
               /\ capacity(i) = size[i]
               /\ owns_buffer(i)
               /\ hdr[i].lbs = size[i]

\* The bytes of all buffers.
Bytes == <<loc, heap, ext, dummy>>

\* C10: reserve(n) returns with capacity() >= n, the content and the length
\* as they were; and when the capacity already was n or more, with the
\* capacity, the buffer and its bytes as they were.
C10_ReserveKeeps ==
    [][(last'.op = "reserve" /\ halt' = "" /\ alive[last'.i])
       => /\ hdr'[last'.i].cap >= last'.n
          /\ hdr'[last'.i].len = hdr[last'.i].len
          /\ CStr([Cur EXCEPT !.hdr = hdr', !.loc = loc', !.heap = heap',
                              !.ext = ext', !.dummy = dummy'],
                  hdr'[last'.i].data) = Content(last'.i)
          /\ (last'.n <= hdr[last'.i].cap) => (hdr' = hdr /\ Bytes' = Bytes)]_vars

\* The capacities the signed m_capacity field can hold.
Representable(n) == n < Pow2(CapacityBits - 1)

\* C11: reserve_discard(n) returns with capacity() >= n and an empty,
\* terminated string, whatever the capacity was before (n and its slack
\* within what m_capacity can hold).
C11_ReserveDiscardEmpties ==
    (last.op = "reserve_discard" /\ last.i \in Observable /\ Representable(last.n + last.k))
        => /\ capacity(last.i) >= last.n
           /\ length(last.i) = 0
           /\ Rd(Cur, c_str(last.i), 0) = NUL

\* What the accessors of a freshly constructed instance of Size n report:
\* data, length, capacity, owns_buffer.
Fresh(i, n) ==
    IF n > 0 THEN <<LocalBufferOf(i), 0, n, TRUE>> ELSE <<DummyPtr, 0, 0, FALSE>>

\* C12: clear() releases the heap block the instance owned and leaves the
\* instance as its default constructor does: a str_sized<N> in its local
\* buffer with length 0, capacity N, owning; a str at the shared empty string
\* with length 0, capacity 0, not owning.
C12_ClearRestoresFresh ==
    [][(last'.op = "clear" /\ halt' = "" /\ alive[last'.i])
       => /\ <<hdr'[last'.i].data, hdr'[last'.i].len, hdr'[last'.i].cap,
               hdr'[last'.i].owns>> = Fresh(last'.i, size[last'.i])
          /\ (hdr[last'.i].owns /\ hdr[last'.i].data.k = "heap")
                 => ~heap'[hdr[last'.i].data.n].live]_vars

\* The machine as the call that just returned left it.
After ==
    [hdr |-> hdr', alive |-> alive', size |-> size', loc |-> loc', heap |-> heap',
     ext |-> ext', dummy |-> dummy', badfree |-> badfree', fault |-> fault',
     halt |-> halt', ndebug |-> ndebug', ret |-> ret']

\* The bytes src[first .. first + count - 1] of the caller's string a call was given.
Given(c) == SubSeq(ext[c.j], c.n + 1, c.n + c.k)

NoTerminatorIn(s) == \A x \in DOMAIN s : s[x] # NUL

\* C13: set(s), s non-empty and without terminators, on an instance in any
\* state: afterwards c_str() reads s, length() is the size of s,
\* capacity() >= size + 1 and owns_buffer() is true.
C13_SetReproduces ==
    [][(/\ last'.op = "set" /\ halt' = "" /\ alive[last'.i]
        /\ last'.k > 0 /\ Len(Given(last')) = last'.k /\ NoTerminatorIn(Given(last')))
       => /\ CStr(After, hdr'[last'.i].data) = Given(last')
          /\ hdr'[last'.i].len = last'.k
          /\ hdr'[last'.i].cap >= last'.k + 1
          /\ hdr'[last'.i].owns]_vars

\* C14: a sized instance (local buffer N) assigned content of length < N allocates nothing,
\* whatever state it was in; assigned content of length >= N while in its local buffer it
\* allocates exactly one block, of at least length + 1 bytes, and owns it.
C14_LocalBufferSuffices ==
    [][(last'.op = "set" /\ halt' = "" /\ alive[last'.i] /\ size[last'.i] > 0)
       => /\ last'.k < size[last'.i] => Len(heap') = Len(heap)
          /\ (last'.k >= size[last'.i] /\ hdr[last'.i].data = LocalBufferOf(last'.i))
                => /\ Len(heap') = Len(heap) + 1
                   /\ heap'[Len(heap')].live
                   /\ heap'[Len(heap')].size >= last'.k + 1
                   /\ hdr'[last'.i].owns]_vars

\* C15: storage only moves forward.  A call other than clear() (and other than the calls
\* that exchange, hand over or end an instance's storage: swap, move, the destructor) never takes an instance from a heap block back to its local buffer or to the
\* shared singleton, nor from its local buffer back to the singleton.
InHeap(h) == h.data.k = "heap"
InLocal(h) == h.data.k = "local"
InSingleton(h) == h.data.k = "dummy"
Exchanging == {"swap", "move_assign", "move_construct", "destroy", "construct"}
C15_NeverBackward ==
    [][(last'.op \notin Exchanging \cup {"clear"} /\ halt' = "" /\ alive[last'.i])
       => /\ InHeap(hdr[last'.i])
                => ~InLocal(hdr'[last'.i]) /\ ~InSingleton(hdr'[last'.i])
          /\ InLocal(hdr[last'.i]) => ~InSingleton(hdr'[last'.i])]_vars

\* C16: swap(a, b) exchanges contents and lengths in every combination of storage modes;
\* with either side in its local buffer no data pointer changes hands (content is copied),
\* and with neither side there the data pointers are exchanged and no byte of memory is
\* allocated, freed or written.
Memory == <<loc, heap, ext, dummy>>
C16_SwapExchanges ==
    [][(last'.op = "swap" /\ halt' = "")
       => /\ CStr(After, hdr'[last'.i].data) = CStr(Cur, hdr[last'.j].data)
          /\ CStr(After, hdr'[last'.j].data) = CStr(Cur, hdr[last'.i].data)
          /\ hdr'[last'.i].len = hdr[last'.j].len
          /\ hdr'[last'.j].len = hdr[last'.i].len
          /\ IF using_local_buffer(Cur, last'.i) \/ using_local_buffer(Cur, last'.j)
             THEN /\ hdr'[last'.i].data = hdr[last'.j].data => hdr[last'.j].data = DummyPtr
                  /\ hdr'[last'.j].data = hdr[last'.i].data => hdr[last'.i].data = DummyPtr
             ELSE /\ Memory' = Memory
                  /\ hdr'[last'.i].data = hdr[last'.j].data
                  /\ hdr'[last'.j].data = hdr[last'.i].data]_vars

\* C17: alias safety of swap and move.  Whatever swaps and moves came before, a data pointer
\* into an embedded buffer points into the instance's own buffer, that instance has one,
\* and the capacity held for it does not exceed its Size.
OwnEmbeddedBuffer(i) ==
    hdr[i].data.k = "local"
        => /\ hdr[i].data.n = i
           /\ size[i] > 0
           /\ hdr[i].cap <= size[i]
C17_AliasSafety == \A i \in Observable : OwnEmbeddedBuffer(i)

\* C18: after a move (construction or assignment) from r the destination holds r's previous
\* content and length, and r is an empty, terminated string; a source that was in its
\* embedded local buffer keeps its pointer and the destination does not take it.
Moves == {"move_assign", "move_construct"}
C18_MoveTransfers ==
    [][(last'.op \in Moves /\ halt' = "")
       => /\ CStr(After, hdr'[last'.i].data) = CStr(Cur, hdr[last'.j].data)
          /\ hdr'[last'.i].len = hdr[last'.j].len
          /\ hdr'[last'.j].len = 0
          /\ CStr(After, hdr'[last'.j].data) = <<>>
          /\ Rd(After, hdr'[last'.j].data, 0) = NUL
          /\ using_local_buffer(Cur, last'.j) =>
                /\ hdr'[last'.i].data # hdr[last'.j].data
                /\ hdr'[last'.j].data = hdr[last'.j].data]_vars

\* C19: set_ref(p) with a non-empty p, and str_ref(p), bind without copying or allocating:
\* afterwards c_str() is p itself, length() is the length of p at the call, capacity() is 0
\* and owns_buffer() is false; no block is allocated and no byte of p, of a local buffer
\* or of the dummy string is written.
Binds == {"set_ref", "str_ref"}
Bound(c) == ExtPtr(c.j, c.n)
C19_SetRefBinds ==
    [][(last'.op \in Binds /\ halt' = "" /\ Rd(Cur, Bound(last'), 0) # NUL)
       => /\ hdr'[last'.i].data = Bound(last')
          /\ hdr'[last'.i].len = StrLen(Cur, Bound(last'))
          /\ hdr'[last'.i].cap = 0
          /\ ~hdr'[last'.i].owns
          /\ Len(heap') = Len(heap)
          /\ <<loc', ext', dummy'>> = <<loc, ext, dummy>>]_vars

\* set_ref rebinds an instance that held " a" on the heap: the block is freed and the
\* instance refers to the caller's two characters.
C19_Witness ==
    /\ last.op = "set_ref" /\ halt = "" /\ alive[last.i]
    /\ hdr[last.i].data = ExtPtr(last.j, 0)
    /\ hdr[last.i].len = 2 /\ hdr[last.i].cap = 0 /\ ~hdr[last.i].owns
    /\ Len(heap) = 1 /\ ~heap[1].live

\* C20: set_ref(p) on an instance that owns a heap buffer, for every non-null p, the
\* empty string included, releases that buffer and leaves capacity() == 0 and
\* owns_buffer() == false.
C20_RebindReleases ==
    [][(/\ last'.op = "set_ref" /\ halt' = "" /\ alive[last'.i]
        /\ hdr[last'.i].owns /\ InHeap(hdr[last'.i]) /\ heap[hdr[last'.i].data.n].live)
       => /\ ~heap'[hdr[last'.i].data.n].live
          /\ hdr'[last'.i].cap = 0
          /\ ~hdr'[last'.i].owns]_vars

\* C21: append(source, start, count) with count > 0 on an instance of length n, in any
\* storage mode, keeps the first n characters, places the count source bytes after them,
\* terminates the string at n + count, sets the length to n + count and owns the buffer.
C21_AppendExtends ==
    [][(last'.op = "append" /\ halt' = "" /\ alive[last'.i] /\ last'.k > 0)
       => /\ RdSeq(After, hdr'[last'.i].data, hdr[last'.i].len + last'.k)
                = RdSeq(Cur, hdr[last'.i].data, hdr[last'.i].len) \o Given(last')
          /\ hdr'[last'.i].len = hdr[last'.i].len + last'.k
          /\ Rd(After, hdr'[last'.i].data, hdr'[last'.i].len) = NUL
          /\ hdr'[last'.i].owns]_vars

\* The text a formatting call that reported n characters produced.
Formatted(c) == (CHOOSE f \in FmtLong : f.ok /\ Len(f.text) = c.n).text

\* C22: after appendf returns true having formatted k characters onto an instance of
\* length n, the length is n + k and the content is the previous content followed by the
\* formatted text.
C22_AppendfExtends ==
    [][(last'.op = "appendf" /\ halt' = "" /\ alive[last'.i] /\ ret' = 1)
       => /\ hdr'[last'.i].len = hdr[last'.i].len + last'.n
          /\ CStr(After, hdr'[last'.i].data)
                = CStr(Cur, hdr[last'.i].data) \o Formatted(last')]_vars

\* C23: setf whose formatted output has r characters leaves, from any prior storage mode,
\* the formatted text as content, length r, capacity >= r + 1 and owns the buffer; a sized
\* instance whose local buffer is smaller than r + 1 ends on the heap.
C23_SetfReproduces ==
    [][(last'.op = "setf" /\ halt' = "" /\ alive[last'.i] /\ last'.n >= 0)
       => /\ CStr(After, hdr'[last'.i].data) = Formatted(last')
          /\ hdr'[last'.i].len = last'.n
          /\ hdr'[last'.i].cap >= last'.n + 1
          /\ hdr'[last'.i].owns
          /\ (size[last'.i] > 0 /\ size[last'.i] < last'.n + 1) => InHeap(hdr'[last'.i])]_vars

\* C24: when the formatting primitive returns a negative value, setf, setf_no_grow and
\* appendf do not halt: they return false and leave an empty, terminated string with the
\* capacity and the ownership they found.
Formatting == {"setf", "setf_no_grow", "appendf"}
C24_FormatFailureRecovers ==
    [][(last'.op \in Formatting /\ alive[last'.i] /\ last'.n < 0)
       => /\ halt' = ""
          /\ ret' = 0
          /\ hdr'[last'.i].len = 0
          /\ Rd(After, hdr'[last'.i].data, 0) = NUL
          /\ hdr'[last'.i].cap = hdr[last'.i].cap
          /\ hdr'[last'.i].owns = hdr[last'.i].owns]_vars

\* C25: setf_no_grow never allocates, frees or changes the capacity, and for every
\* capacity, 0 included, leaves a terminated string with
\* 0 <= length() <= max(capacity() - 1, 0), writing no byte outside the buffer.
C25_NoGrowStaysInside ==
    [][(last'.op = "setf_no_grow" /\ halt' = "" /\ alive[last'.i] /\ fault = "")
       => /\ Len(heap') = Len(heap)
          /\ \A b \in DOMAIN heap : heap'[b].live = heap[b].live
          /\ hdr'[last'.i].cap = hdr[last'.i].cap
          /\ hdr'[last'.i].len >= 0
          /\ hdr'[last'.i].len <= Max(hdr'[last'.i].cap - 1, 0)
          /\ Rd(After, hdr'[last'.i].data, hdr'[last'.i].len) = NUL
          /\ fault' = ""]_vars

\* The formatted output did not fit: setf_no_grow cut it to capacity - 1 characters.
Truncated(c) == c.n >= 0 /\ c.n >= hdr[c.i].cap

\* C26: on a buffer of capacity above 0 the return value of setf_no_grow tells a call whose
\* output was cut from one whose output fitted: a cut call does not return what a fitting
\* call returns (true).
C26_ReportsTruncation ==
    [][(/\ last'.op = "setf_no_grow" /\ halt' = "" /\ alive[last'.i]
        /\ last'.n >= 0 /\ hdr[last'.i].cap > 0)
       => (ret' = 1) = ~Truncated(last')]_vars

\* The instance owns a heap block larger than its content and terminator need.
OverAllocated(i) == hdr[i].owns /\ InHeap(hdr[i]) /\ hdr[i].cap > hdr[i].len + 1

\* C27: shrink_to_fit() changes nothing unless the instance owns an over-allocated heap
\* block; then it ends with capacity length + 1 in a new block, the same content and
\* length, owning it, and the old block freed.
C27_ShrinkToFit ==
    [][(last'.op = "shrink_to_fit" /\ halt' = "" /\ alive[last'.i])
       => IF OverAllocated(last'.i)
          THEN /\ hdr'[last'.i].cap = hdr[last'.i].len + 1
               /\ hdr'[last'.i].len = hdr[last'.i].len
               /\ CStr(After, hdr'[last'.i].data) = CStr(Cur, hdr[last'.i].data)
               /\ Terminated(After, hdr'[last'.i].data)
               /\ hdr'[last'.i].owns /\ InHeap(hdr'[last'.i])
               /\ heap'[hdr'[last'.i].data.n].live
               /\ ~heap'[hdr[last'.i].data.n].live
               /\ badfree' = badfree
          ELSE <<hdr', Memory'>> = <<hdr, Memory>>]_vars

\* C28: truncate(max_len) leaves the instance unchanged when max_len >= length();
\* otherwise the length is max_len, the first max_len characters are as before and a
\* terminator stands at max_len.  The data pointer, the capacity and the ownership are
\* unchanged and nothing is allocated or freed.
C28_TruncateFrame ==
    [][(last'.op = "truncate" /\ halt' = "" /\ alive[last'.i])
       => /\ IF last'.n >= hdr[last'.i].len
             THEN <<hdr', Memory'>> = <<hdr, Memory>>
             ELSE /\ hdr'[last'.i].len = last'.n
                  /\ RdSeq(After, hdr'[last'.i].data, last'.n)
                        = RdSeq(Cur, hdr[last'.i].data, last'.n)
                  /\ Rd(After, hdr'[last'.i].data, last'.n) = NUL
          /\ hdr'[last'.i].data = hdr[last'.i].data
          /\ hdr'[last'.i].cap = hdr[last'.i].cap
          /\ hdr'[last'.i].owns = hdr[last'.i].owns
          /\ Len(heap') = Len(heap)
          /\ \A b \in DOMAIN heap : heap'[b].live = heap[b].live]_vars

\* The call breaks a precondition: a null source, a negative first or count, an index
\* outside the string, an offset or a count past the source's terminator.
SourceLength(c) == StrLen(Cur, ExtPtr(c.j, 0))
Violates(c) ==
    CASE c.op \in {"set", "append"} ->
            c.j = 0 \/ c.n < 0 \/ c.k < 0 \/ c.n + c.k > SourceLength(c)
      [] c.op = "set_ref" -> c.j = 0 \/ c.n < 0 \/ c.n > SourceLength(c)
      [] c.op = "truncate" -> c.n < 0
      [] c.op = "operator[]" -> c.n < 0 \/ c.n >= hdr[c.i].len
      [] OTHER -> FALSE

\* C29: with assertions compiled in, a call that breaks a precondition stops in the
\* assertion hook, before any field is changed and before any memory is read or written.
C29_PreconditionsAsserted ==
    [][(Violates(last') /\ alive[last'.i] /\ ~ndebug)
       => /\ halt' # ""
          /\ fault' = fault
          /\ <<hdr', Memory'>> = <<hdr, Memory>>]_vars

---------------------------------------------------------------------------
(* Programs that ask about the content. *)

\* What std::strcmp reports for the strings s and t: its sign.
RECURSIVE SeqCompare(_, _)
SeqCompare(s, t) ==
    IF s = <<>> /\ t = <<>> THEN 0
    ELSE IF s = <<>> THEN 0 - 1
    ELSE IF t = <<>> THEN 1
    ELSE IF Head(s) < Head(t) THEN 0 - 1
    ELSE IF Head(s) > Head(t) THEN 1
    ELSE SeqCompare(Tail(s), Tail(t))

Take(s, n) == SubSeq(s, 1, Min(n, Len(s)))

\* str::compare(a, b).
compare(m, a, b) == SeqCompare(CStr(m, a), CStr(m, b))

\* str::compare(a, b, chars_to_compare).
compare_n(m, a, b, chars_to_compare) ==
    SeqCompare(Take(CStr(m, a), chars_to_compare), Take(CStr(m, b), chars_to_compare))

Bool(b) == IF b THEN 1 ELSE 0

ends_with(m, i, suffix, suffix_len) ==
    LET h == m.hdr[i]
        m1 == StrAssert(StrAssert(m, suffix # NullPtr, "suffix"), suffix_len >= 0, "suffix_len")
    IN  IF h.len = 0 \/ suffix_len = 0 \/ h.len < suffix_len
        THEN SetRet(m1, 0)
        ELSE IF h.len = suffix_len
        THEN SetRet(Deref(m1, h.data), Bool(compare(m, h.data, suffix) = 0))
        ELSE SetRet(Deref(m1, PtrAdd(h.data, h.len - suffix_len - 1)),
                    Bool(compare_n(m, PtrAdd(h.data, h.len - suffix_len - 1), suffix,
                                   suffix_len) = 0))

\* ends_with(const char *): the suffix measured by str::length.
ends_with_cstr(m, i, suffix) == ends_with(m, i, suffix, StrLen(m, suffix))

\* s.ends_with(text + first), text one of the caller's strings.
EndsWith(i, e, first) ==
    /\ Running /\ alive[i]
    /\ first <= ExtLen(e)
    /\ Becomes(ends_with_cstr(Cur, i, ExtPtr(e, first)), Call("ends_with", i, e, first, 0))

NextQuery ==
    \/ \E i \in Subject, e \in ExtId, first \in 0..2 : EndsWith(i, e, first)
    \/ \E i \in Subject, e \in ExtId : Set(i, e)
    \/ \E i \in Subject, e \in ExtId : AppendC(i, e)
    \/ \E i \in Subject, c \in CharArgs : PushBack(i, c)
    \/ \E i \in Subject : PopBack(i)

SpecQuery == Init /\ [][NextQuery]_vars

\* The suffix a call asks about.
Suffix(c) == CStr(Cur, ExtPtr(c.j, c.n))

EndsIn(s, t) ==
    /\ s # <<>> /\ t # <<>> /\ Len(t) <= Len(s)
    /\ SubSeq(s, Len(s) - Len(t) + 1, Len(s)) = t

\* C30: ends_with(suffix) returns true exactly when the string is non-empty, the suffix is
\* non-empty and the last length(suffix) characters of the string equal the suffix; it
\* returns false otherwise.
C30_EndsWith ==
    [][(last'.op = "ends_with" /\ halt' = "" /\ alive[last'.i])
       => (ret' = 1) = EndsIn(Content(last'.i), Suffix(last'))]_vars

---------------------------------------------------------------------------
(* Programs that search for a character. *)

\* The loop of first_index_of from index i on: ptr[i] is read until a terminator.
RECURSIVE FirstLoop(_, _, _, _)
FirstLoop(m, ptr, i, c) ==
    IF ~Accessible(m, ptr, i) \/ i >= Readable(m, ptr) THEN SetRet(Fault(m, "read"), Uninit)
    ELSE IF Rd(m, ptr, i) # NUL
    THEN IF Rd(m, ptr, i) = c THEN SetRet(m, i) ELSE FirstLoop(m, ptr, i + 1, c)
    ELSE IF c = NUL THEN SetRet(m, i) ELSE SetRet(m, 0 - 1)

first_index_of(m, i, c) == FirstLoop(m, m.hdr[i].data, 0, c)

\* The loop of last_index_of from index i on, last_index the last match so far.
RECURSIVE LastLoop(_, _, _, _, _)
LastLoop(m, ptr, i, last_index, c) ==
    IF ~Accessible(m, ptr, i) \/ i >= Readable(m, ptr) THEN SetRet(Fault(m, "read"), Uninit)
    ELSE IF Rd(m, ptr, i) # NUL
    THEN LastLoop(m, ptr, i + 1, IF Rd(m, ptr, i) = c THEN i ELSE last_index, c)
    ELSE IF c = NUL THEN SetRet(m, i) ELSE SetRet(m, last_index)

last_index_of(m, i, c) == LastLoop(m, m.hdr[i].data, 0, 0 - 1, c)

SearchArgs == {NUL, ChSpace, ChLowerA, ChLowerB}

FirstIndexOf(i, c) ==
    /\ Running /\ alive[i]
    /\ Becomes(first_index_of(Cur, i, c), Call("first_index_of", i, 0, c, 0))

LastIndexOf(i, c) ==
    /\ Running /\ alive[i]
    /\ Becomes(last_index_of(Cur, i, c), Call("last_index_of", i, 0, c, 0))

NextSearch ==
    \/ \E i \in Subject, c \in SearchArgs : FirstIndexOf(i, c)
    \/ \E i \in Subject, c \in SearchArgs : LastIndexOf(i, c)
    \/ \E i \in Subject, e \in ExtId : Set(i, e)
    \/ \E i \in Subject, c \in CharArgs : PushBack(i, c)
    \/ \E i \in Subject : PopBack(i)
    \/ \E i \in Subject, f \in FmtArgs : Appendf(i, f)
    \/ \E i \in Subject, f \in FmtArgs : SetfNoGrow(i, f)

SpecSearch == Init /\ [][NextSearch]_vars

\* The indices below length() at which instance i holds the character c.
Occurrences(i, c) == {x \in 0..(hdr[i].len - 1) : Rd(Cur, hdr[i].data, x) = c}

Searching == {"first_index_of", "last_index_of"}

\* C31: first_index_of(c) returns the smallest index i with data[i] == c and
\* last_index_of(c) the largest, both return -1 when c does not occur and length() when c
\* is the terminator character; the instance is unchanged and nothing outside it is read.
C31_CharacterSearch ==
    [][(last'.op \in Searching /\ halt' = "" /\ alive[last'.i])
       => /\ last'.n = NUL => ret' = hdr[last'.i].len
          /\ (last'.n # NUL /\ Occurrences(last'.i, last'.n) = {}) => ret' = 0 - 1
          /\ (last'.n # NUL /\ Occurrences(last'.i, last'.n) # {})
                => /\ ret' \in Occurrences(last'.i, last'.n)
                   /\ \A x \in Occurrences(last'.i, last'.n) :
                         IF last'.op = "first_index_of" THEN ret' <= x ELSE x <= ret'
          /\ <<hdr', Memory', fault'>> = <<hdr, Memory, fault>>]_vars

---------------------------------------------------------------------------
(* The data pointer. *)

Dereferenceable(i) == hdr[i].data # NullPtr /\ Accessible(Cur, hdr[i].data, 0)

\* Instance i is a plain instance the last call default-constructed.
JustDefaultConstructed(i) == last.op = "construct" /\ last.i = i /\ size[i] = 0

\* C32: data is never null: a default-constructed plain instance points at the shared
\* empty singleton with length 0, capacity 0, owns_buffer false and a terminator at
\* c_str()[0], and after any sequence of operations c_str() of a live instance is a
\* non-null pointer that can be dereferenced.
C32_DataNeverNull ==
    \A i \in Inst : (alive[i] /\ halt = "")
        => /\ Dereferenceable(i)
           /\ JustDefaultConstructed(i)
                => /\ hdr[i].data = DummyPtr
                   /\ hdr[i].len = 0 /\ hdr[i].cap = 0 /\ ~hdr[i].owns
                   /\ Rd(Cur, hdr[i].data, 0) = NUL

---------------------------------------------------------------------------
(* One character at the end. *)

ButLast(s) == SubSeq(s, 1, Len(s) - 1)

\* C33: push_back(c) on an instance of length n reserves at least n + 2 slots and yields
\* the old content followed by c with length n + 1; pop_back() on a non-empty instance
\* removes exactly the last character (so that it undoes a push_back), and on an empty
\* instance changes nothing.
C33_PushPop ==
    [][(last'.op \in {"push_back", "pop_back"} /\ halt' = "" /\ alive[last'.i])
       => /\ last'.op = "push_back"
                => /\ hdr'[last'.i].cap >= hdr[last'.i].len + 2
                   /\ CStr(After, hdr'[last'.i].data) = Content(last'.i) \o <<last'.n>>
                   /\ hdr'[last'.i].len = hdr[last'.i].len + 1
          /\ (last'.op = "pop_back" /\ hdr[last'.i].len > 0)
                => /\ CStr(After, hdr'[last'.i].data) = ButLast(Content(last'.i))
                   /\ hdr'[last'.i].len = hdr[last'.i].len - 1
          /\ (last'.op = "pop_back" /\ hdr[last'.i].len = 0)
                => <<hdr', Memory'>> = <<hdr, Memory>>]_vars

---------------------------------------------------------------------------
(* Programs that trim. *)

TrimChars == {ChSpace, ChLowerA}

NextTrim ==
    \/ \E i \in Subject : TrimLeft(i)
    \/ \E i \in Subject : TrimRight(i)
    \/ \E i \in Subject : Trim(i)
    \/ \E i \in Subject, e \in ExtId : Set(i, e)
    \/ \E i \in Subject, c \in TrimChars : PushBack(i, c)
    \/ \E i \in Subject : PopBack(i)
    \/ \E i \in Subject, f \in FmtArgs : Appendf(i, f)
    \/ \E i \in Subject, f \in FmtArgs : SetfNoGrow(i, f)

SpecTrim == Init /\ [][NextTrim]_vars

\* The string s without its leading, and without its trailing, run of whitespace.
RECURSIVE NoLeading(_)
NoLeading(s) == IF s # <<>> /\ IsSpace(Head(s)) THEN NoLeading(Tail(s)) ELSE s

RECURSIVE NoTrailing(_)
NoTrailing(s) ==
    IF s # <<>> /\ IsSpace(s[Len(s)]) THEN NoTrailing(SubSeq(s, 1, Len(s) - 1)) ELSE s

Trimmed(op, s) ==
    CASE op = "trim_left"  -> NoLeading(s)
      [] op = "trim_right" -> NoTrailing(s)
      [] OTHER             -> NoLeading(NoTrailing(s))

\* The same trim applied to the machine m.
TrimAgain(op, m, i) ==
    CASE op = "trim_left"  -> trim_left(m, i)
      [] op = "trim_right" -> trim_right(m, i)
      [] OTHER             -> trim(m, i)

Trimming == {"trim_left", "trim_right", "trim"}

\* C34: trim_left, trim_right and trim remove exactly the leading, the trailing, and both
\* runs of whitespace in place: the remaining characters keep their order, length()
\* shrinks by the number of characters removed, capacity and buffer are unchanged, and
\* applying the same trim a second time changes nothing.
C34_Trim ==
    [][(last'.op \in Trimming /\ halt' = "" /\ alive[last'.i])
       => /\ CStr(After, hdr'[last'.i].data) = Trimmed(last'.op, Content(last'.i))
          /\ hdr'[last'.i].len
                = hdr[last'.i].len
                    - (Len(Content(last'.i)) - Len(Trimmed(last'.op, Content(last'.i))))
          /\ hdr'[last'.i].cap = hdr[last'.i].cap
          /\ hdr'[last'.i].data = hdr[last'.i].data
          /\ fault' = fault
          /\ TrimAgain(last'.op, After, last'.i) = After]_vars

---------------------------------------------------------------------------
(* Programs that append an instance to itself. *)

\* str s(text + first); str t;
InitSelf ==
    \E sz \in Sizes, nd \in BOOLEAN, first \in 0..2 :
        /\ Holds(Void(construct(set_cstr(construct(InitMachine(sz, nd), 1, sz[1]),
                                         1, ExtPtr(1, first)),
                                2, sz[2])))
        /\ last = Call("construct", 0, 0, 0, 0)
        /\ calls = 0

\* s.append(s), s += s
AppendSelf(i) ==
    /\ Running /\ alive[i]
    /\ Becomes(Void(append_str(Cur, i, i)), Call("append_self", i, i, 0, hdr[i].len))

NextSelf ==
    \/ \E i \in Subject : AppendSelf(i)
    \/ \E i \in Subject : ShrinkToFit(i)
    \/ \E i \in Subject, c \in CharArgs : PushBack(i, c)
    \/ \E i \in Subject : PopBack(i)
    \/ \E i \in Subject : Clear(i)
    \/ \E i \in Subject, n \in ReserveArgs, x \in ExtraArgs : Reserve(i, n, x)

SpecSelf == InitSelf /\ [][NextSelf]_vars

\* Instance i owns a heap block too small for its content twice.
TooSmallToDouble(i) ==
    /\ hdr[i].owns /\ InHeap(hdr[i])
    /\ hdr[i].len > 0 /\ hdr[i].cap < 2 * hdr[i].len + 1

\* C35: appending an instance to itself when it owns a heap block too small for the
\* doubled content yields the original content twice with the length doubled, and no
\* byte is read from a block after that block has been freed.
C35_SelfAppend ==
    [][(last'.op = "append_self" /\ halt' = "" /\ TooSmallToDouble(last'.i))
       => /\ CStr(After, hdr'[last'.i].data) = Content(last'.i) \o Content(last'.i)
          /\ hdr'[last'.i].len = 2 * hdr[last'.i].len
          /\ fault' = fault]_vars

---------------------------------------------------------------------------
(* Resizing. *)

\* C36: resize(new_len, fill) and resize_discard(new_len, fill) both leave
\* length() == new_len with a terminator at data[new_len]; resize keeps the previous
\* characters in the positions below the old length, resize_discard fills every position.
C36_Resize ==
    [][(last'.op \in {"resize", "resize_discard"} /\ halt' = "" /\ alive[last'.i])
       => /\ hdr'[last'.i].len = last'.n
          /\ Rd(After, hdr'[last'.i].data, last'.n) = NUL
          /\ last'.op = "resize"
                => \A x \in 0..(Min(hdr[last'.i].len, last'.n) - 1) :
                      Rd(After, hdr'[last'.i].data, x) = Rd(Cur, hdr[last'.i].data, x)
          /\ last'.op = "resize_discard"
                => \A x \in 0..(last'.n - 1) : Rd(After, hdr'[last'.i].data, x) = last'.k]_vars

---------------------------------------------------------------------------
(* Sized instances constructed from a part of a source. *)

SourceKinds == {"str", "cstr", "string"}

\* str_sized<n>(rhs, first, count), rhs read at src: a str, a C string or a std::string.
construct_part(m, i, n, kind, src, first, count) ==
    IF kind = "string"
    THEN set(construct(m, i, n), i, src, count, first)
    ELSE set(construct(m, i, n), i, src, first, count)

PartOp(kind) ==
    CASE kind = "str"  -> "str_sized(str)"
      [] kind = "cstr" -> "str_sized(cstr)"
      [] OTHER         -> "str_sized(string)"

\* str_sized<n> a{ text, first, count }, text a C string or a std::string of the caller.
ConstructPart(i, kind, e, first, count) ==
    /\ Running /\ ~alive[i] /\ size[i] > 0
    /\ kind # "str"
    /\ first + count <= ExtLen(e)
    /\ Becomes(Void(construct_part(Cur, i, size[i], kind, ExtPtr(e, 0), first, count)),
               Call(PartOp(kind), i, e, first, count))

\* str_sized<n> a{ b, first, count }
ConstructPartOf(i, j, first, count) ==
    /\ Running /\ ~alive[i] /\ size[i] > 0
    /\ alive[j] /\ i # j
    /\ first >= 0 /\ count >= 0 /\ first + count <= hdr[j].len
    /\ Becomes(Void(construct_part(Cur, i, size[i], "str", hdr[j].data, first, count)),
               Call(PartOp("str"), i, j, first, count))

NextPart ==
    \/ \E i \in Inst, kind \in SourceKinds, e \in ExtId, first \in 0..2, count \in 0..2 :
            ConstructPart(i, kind, e, first, count)
    \/ \E i \in Inst, j \in Inst, first \in 0..2, count \in 0..2 :
            ConstructPartOf(i, j, first, count)
    \/ \E i \in Inst : Destroy(i)
    \/ \E i \in Inst, e \in ExtId : Set(i, e)

SpecPart == Init /\ [][NextPart]_vars

PartOps == {PartOp(kind) : kind \in SourceKinds}

\* Where the source of a constructing call is read.
PartSource(c) == IF c.op = PartOp("str") THEN hdr[c.j].data ELSE ExtPtr(c.j, 0)

\* set(source, first, count) on a fresh sized instance in place of the constructor.
FreshSet(c) == set(construct(Cur, c.i, size[c.i]), c.i, PartSource(c), c.n, c.k)

\* C37: every sized-variant constructor taking (source, first, count) produces the same
\* content and length as set(source, first, count) on a fresh sized instance, for str,
\* C-string and std::string sources alike.
C37_ConstructAsSet ==
    [][(last'.op \in PartOps /\ halt' = "")
       => /\ CStr(After, hdr'[last'.i].data)
                = CStr(FreshSet(last'), FreshSet(last').hdr[last'.i].data)
          /\ hdr'[last'.i].len = FreshSet(last').hdr[last'.i].len]_vars

---------------------------------------------------------------------------
(* Iterators.  The program holds one iterator at a time; it is invalidated,  *)
(* as any pointer into the buffer, by a call that changes the string, so the *)
(* programs here change the string only while they hold none.               *)

\* basic_bidirectional_iterator::valid(); the three pointers are into one buffer.
iter_valid(it) == it.ptr # NullPtr /\ it.ptr.o >= it.start.o /\ it.ptr.o <= it.end.o

\* basic_bidirectional_iterator(ptr, start, end) taken from instance i.
iterator(m, i, ptr, start, end) ==
    [m  |-> StrAssert(m, iter_valid([ptr |-> ptr, start |-> start, end |-> end]), "valid"),
     it |-> [ptr |-> ptr, start |-> start, end |-> end, of |-> i, rev |-> FALSE]]

begin(m, i) ==
    iterator(m, i, m.hdr[i].data, m.hdr[i].data, PtrAdd(m.hdr[i].data, m.hdr[i].len))

end(m, i) ==
    iterator(m, i, PtrAdd(m.hdr[i].data, m.hdr[i].len), m.hdr[i].data,
             PtrAdd(m.hdr[i].data, m.hdr[i].len))

\* std::reverse_iterator{ end() } and std::reverse_iterator{ begin() }
Reversed(r) == [r EXCEPT !.it.rev = TRUE]
rbegin(m, i) == Reversed(end(m, i))
rend(m, i) == Reversed(begin(m, i))

\* operator++ without its two assertions.
increment_unchecked(m, it) == [m |-> m, it |-> [it EXCEPT !.ptr = PtrAdd(@, 1)]]

\* operator++ and operator-- of basic_bidirectional_iterator.
increment(m, it) ==
    [m  |-> StrAssert(StrAssert(m, it.ptr # NullPtr, "m_ptr"), it.ptr.o < it.end.o, "m_end"),
     it |-> [it EXCEPT !.ptr = PtrAdd(@, 1)]]

decrement(m, it) ==
    [m  |-> StrAssert(StrAssert(m, it.ptr # NullPtr, "m_ptr"), it.ptr.o > it.start.o, "m_start"),
     it |-> [it EXCEPT !.ptr = PtrAdd(@, 0 - 1)]]

\* operator*: the character read is the call's result.
star(m, it) ==
    SetRet(Deref(StrAssert(m, iter_valid(it), "valid"), it.ptr), Rd(m, it.ptr, 0))

\* operator==
equals(m, a, b) ==
    SetRet(StrAssert(StrAssert(m, iter_valid(a), "valid"), iter_valid(b), "other"),
           Bool(a.ptr = b.ptr))

\* The same four on a std::reverse_iterator: ++ moves its base down, * reads before it.
advance(m, it) == IF it.rev THEN decrement(m, it) ELSE increment(m, it)
retreat(m, it) == IF it.rev THEN increment(m, it) ELSE decrement(m, it)
read(m, it) == IF it.rev THEN star(decrement(m, it).m, decrement(m, it).it) ELSE star(m, it)
finished(m, it) ==
    IF it.rev THEN equals(rend(m, it.of).m, it, rend(m, it.of).it)
    ELSE equals(end(m, it.of).m, it, end(m, it.of).it)

\* A step of the program that leaves the machine as m and the iterator as it
\* (where it was if an assertion stopped the program).
Iterates(m, op, it) ==
    /\ hdr' = m.hdr /\ alive' = m.alive /\ size' = m.size /\ loc' = m.loc
    /\ heap' = m.heap /\ ext' = m.ext /\ dummy' = m.dummy /\ badfree' = m.badfree
    /\ fault' = m.fault /\ halt' = m.halt /\ ndebug' = m.ndebug /\ ret' = m.ret
    /\ last' = Call(op, it.of, 0, 0, 0)
    /\ calls' = calls
    /\ iter' = IF Halted(m) THEN iter ELSE it

Holding == halt = "" /\ iter # NoIter /\ alive[iter.of]

\* The iterator is no further from its string than the model follows it.
Near(it) == it.ptr.o - it.start.o \in (0 - 1)..(MaxLen + 1)

\* auto it = s.begin();  auto it = s.rbegin();
Begin(i) ==
    /\ halt = "" /\ iter = NoIter /\ alive[i]
    /\ Iterates(Void(begin(Cur, i).m), "begin", begin(Cur, i).it)

RBegin(i) ==
    /\ halt = "" /\ iter = NoIter /\ alive[i]
    /\ Iterates(Void(rbegin(Cur, i).m), "rbegin", rbegin(Cur, i).it)

\* ++it;  --it;  *it;  it == s.end() (it == s.rend())
Increment ==
    /\ Holding /\ Near(iter)
    /\ Iterates(Void(advance(Cur, iter).m), "increment", advance(Cur, iter).it)

Decrement ==
    /\ Holding /\ Near(iter)
    /\ Iterates(Void(retreat(Cur, iter).m), "decrement", retreat(Cur, iter).it)

Star ==
    /\ Holding
    /\ Iterates(read(Cur, iter), "star", iter)

AtEnd ==
    /\ Holding
    /\ Iterates(finished(Cur, iter), "at_end", iter)

\* A call that changes the string, made while the program holds no iterator.
Changes(i) ==
    /\ iter = NoIter
    /\ \/ \E e \in ExtId : Set(i, e)
       \/ \E c \in CharArgs : PushBack(i, c)
       \/ \E f \in FmtArgs : SetfNoGrow(i, f)

NextIter ==
    \/ \E i \in Subject : Begin(i)
    \/ \E i \in Subject : RBegin(i)
    \/ Increment
    \/ Decrement
    \/ Star
    \/ AtEnd
    \/ \E i \in Subject : Changes(i)

SpecIter == Init /\ [][NextIter]_vars

\* How many increments the iterator is away from where begin() (rbegin()) put it.
Position(it) ==
    IF it.rev THEN hdr[it.of].data.o + hdr[it.of].len - it.ptr.o
    ELSE it.ptr.o - hdr[it.of].data.o

\* The character the iterator yields at that position.
Yields(it) ==
    IF it.rev THEN Rd(Cur, hdr[it.of].data, hdr[it.of].len - 1 - Position(it))
    ELSE Rd(Cur, hdr[it.of].data, Position(it))

Iterating == {"begin", "rbegin", "increment", "decrement", "star", "at_end"}

\* C38: an iterator obtained from begin() reaches end() after exactly length()
\* increments and yields the characters in index order, one from rbegin() reaches rend()
\* after as many and yields them in reverse order; incrementing an iterator at the end,
\* or decrementing one at the beginning, trips the assertion hook instead of moving it.
C38_IterationBounded ==
    [][(last'.op \in Iterating /\ halt = "")
       => /\ (last'.op \in {"begin", "rbegin"} /\ halt' = "")
                => iter'.of = last'.i /\ Position(iter') = 0
          /\ (last'.op = "increment" /\ Position(iter) < hdr[iter.of].len)
                => halt' = "" /\ Position(iter') = Position(iter) + 1
          /\ (last'.op = "increment" /\ Position(iter) = hdr[iter.of].len /\ ~ndebug)
                => halt' # "" /\ iter' = iter
          /\ (last'.op = "decrement" /\ Position(iter) = 0 /\ ~ndebug)
                => halt' # "" /\ iter' = iter
          /\ (last'.op = "at_end" /\ halt' = "")
                => (ret' = 1) = (Position(iter) = hdr[iter.of].len)
          /\ (last'.op = "star" /\ Position(iter) \in 0..(hdr[iter.of].len - 1))
                => halt' = "" /\ fault' = fault /\ ret' = Yields(iter)
          /\ (halt' = "" /\ ~ndebug)
                => Position(iter') \in 0..hdr[iter'.of].len]_vars

\* The program advanced an iterator from begin() over a string of two characters and
\* the increment at end() stopped it.
C38_Witness ==
    /\ last.op = "increment" /\ halt = "m_end"
    /\ ~iter.rev /\ hdr[iter.of].len = 2 /\ Position(iter) = 2

---------------------------------------------------------------------------
(* The static helpers on a caller's character array. *)

\* The three STR_ASSERT that open copy and append.
HelperAsserts(m, dest, dest_size_in_chars, source) ==
    StrAssert(StrAssert(StrAssert(m, dest # NullPtr, "dest"), source # NullPtr, "source"),
              dest_size_in_chars > 0, "dest_size_in_chars")

\* Truncate on overflow, and the value returned: ptr is the index one past the last
\* character stored.
CopyTail(m, dest, ptr, chars_available) ==
    IF chars_available = 0 THEN SetRet(Wr(m, dest, ptr - 1, NUL), ptr - 1)
    ELSE SetRet(m, ptr - 1)

\* while ((*ptr++ = *source++) && --dest_size_in_chars > 0) { }
RECURSIVE CopyLoop(_, _, _, _, _)
CopyLoop(m, dest, source, at, dest_size_in_chars) ==
    IF Rd(m, source, at) = NUL
    THEN CopyTail(Wr(Deref(m, PtrAdd(source, at)), dest, at, NUL), dest, at + 1,
                  dest_size_in_chars)
    ELSE IF dest_size_in_chars - 1 > 0
    THEN CopyLoop(Wr(Deref(m, PtrAdd(source, at)), dest, at, Rd(m, source, at)),
                  dest, source, at + 1, dest_size_in_chars - 1)
    ELSE CopyTail(Wr(Deref(m, PtrAdd(source, at)), dest, at, Rd(m, source, at)),
                  dest, at + 1, dest_size_in_chars - 1)

\* str::copy(dest, dest_size_in_chars, source)
copy(m, dest, dest_size_in_chars, source) ==
    CopyLoop(HelperAsserts(m, dest, dest_size_in_chars, source), dest, source, 0,
             dest_size_in_chars)

\* The for (;;) loop of the counted copy.
RECURSIVE CopyCountedLoop(_, _, _, _, _, _)
CopyCountedLoop(m, dest, source, at, chars_available, chars_to_copy) ==
    IF Rd(m, source, at) = NUL
    THEN CopyTail(Wr(Deref(m, PtrAdd(source, at)), dest, at, NUL), dest, at + 1,
                  chars_available)
    ELSE IF chars_available - 1 = 0
    THEN CopyTail(Wr(Deref(m, PtrAdd(source, at)), dest, at, Rd(m, source, at)),
                  dest, at + 1, 0)
    ELSE IF at + 1 = chars_to_copy
    THEN CopyTail(Wr(Wr(Deref(m, PtrAdd(source, at)), dest, at, Rd(m, source, at)),
                     dest, at + 1, NUL),
                  dest, at + 2, chars_available - 1)
    ELSE CopyCountedLoop(Wr(Deref(m, PtrAdd(source, at)), dest, at, Rd(m, source, at)),
                         dest, source, at + 1, chars_available - 1, chars_to_copy)

\* str::copy(dest, dest_size_in_chars, source, chars_to_copy)
copy_counted(m, dest, dest_size_in_chars, source, chars_to_copy) ==
    IF chars_to_copy <= 0
    THEN SetRet(HelperAsserts(m, dest, dest_size_in_chars, source), 0)
    ELSE CopyCountedLoop(HelperAsserts(m, dest, dest_size_in_chars, source), dest, source,
                         0, dest_size_in_chars, chars_to_copy)

\* str::append(dest, dest_size_in_chars, source, chars_to_append)
append_counted(m, dest, dest_size_in_chars, source, chars_to_append) ==
    LET Put(m1, dest_len, n) ==
            SetRet(Wr(MemCpy(m1, PtrAdd(dest, dest_len), source, n), dest, dest_len + n, NUL),
                   dest_len + n)
        Clamp(m1, dest_len) ==
            Put(StrAssert(m1, dest_len < dest_size_in_chars, "dest_len"), dest_len,
                IF chars_to_append >= dest_size_in_chars - dest_len
                THEN dest_size_in_chars - dest_len - 1 ELSE chars_to_append)
    IN  IF chars_to_append <= 0
        THEN SetRet(HelperAsserts(m, dest, dest_size_in_chars, source), 0)
        ELSE Clamp(HelperAsserts(m, dest, dest_size_in_chars, source), StrLen(m, dest))

\* str::append(dest, dest_size_in_chars, source)
append_whole(m, dest, dest_size_in_chars, source) ==
    append_counted(m, dest, dest_size_in_chars, source, StrLen(m, source))

\* char dest[n]; holding nothing yet, "" or "a".
DestSizes == 1..MaxLen
DestTexts(n) == {<<>>, <<NUL>>} \cup (IF n >= 2 THEN {<<ChLowerA, NUL>>} ELSE {})
Dest == HeapPtr(1)
DestSize == heap[1].size

InitStatic ==
    \E n \in DestSizes, nd \in BOOLEAN :
        \E t \in DestTexts(n) :
            /\ Holds([InitMachine(<<0, 0>>, nd) EXCEPT
                         !.heap = <<[size |-> n, bytes |-> t, live |-> TRUE]>>])
            /\ last = Call("construct", 0, 0, 0, 0)
            /\ calls = 0

\* The helpers called on dest with source = text + first.
StaticCopy(e, first) ==
    /\ Running /\ first <= ExtLen(e)
    /\ Becomes(copy(Cur, Dest, DestSize, ExtPtr(e, first)), Call("copy", 0, e, first, 0))

StaticCopyCounted(e, first, n) ==
    /\ Running /\ first <= ExtLen(e)
    /\ Becomes(copy_counted(Cur, Dest, DestSize, ExtPtr(e, first), n),
               Call("copy_counted", 0, e, first, n))

StaticAppend(e, first) ==
    /\ Running /\ first <= ExtLen(e)
    /\ Terminated(Cur, Dest)
    /\ Becomes(append_whole(Cur, Dest, DestSize, ExtPtr(e, first)),
               Call("append_whole", 0, e, first, 0))

StaticAppendCounted(e, first, n) ==
    /\ Running /\ first <= ExtLen(e)
    /\ Terminated(Cur, Dest)
    /\ n <= StrLen(Cur, ExtPtr(e, first))
    /\ Becomes(append_counted(Cur, Dest, DestSize, ExtPtr(e, first), n),
               Call("append_counted", 0, e, first, n))

Counts == (0 - 1)..MaxLen

NextStatic ==
    \/ \E e \in ExtId, first \in 0..2 : StaticCopy(e, first)
    \/ \E e \in ExtId, first \in 0..2, n \in Counts : StaticCopyCounted(e, first, n)
    \/ \E e \in ExtId, first \in 0..2 : StaticAppend(e, first)
    \/ \E e \in ExtId, first \in 0..2, n \in Counts : StaticAppendCounted(e, first, n)

SpecStatic == InitStatic /\ [][NextStatic]_vars

Helpers == {"copy", "copy_counted", "append_whole", "append_counted"}

\* The length of the source a helper was given, and the count it was given with it.
HelperSource(c) == StrLen(Cur, ExtPtr(c.j, c.n))
Min3(a, b, c) == Min(a, Min(b, c))

\* C39: the static helpers copy and append never write at or beyond dest[dest_size],
\* always leave dest terminated, truncate when the source does not fit, and return the
\* number of characters dest then holds, for copy
\* min(length(source), chars_to_copy, dest_size - 1).
C39_StaticHelpers ==
    [][(last'.op \in Helpers /\ halt' = "")
       => /\ fault' = fault
          /\ Terminated(After, Dest)
          /\ ret' = StrLen(After, Dest)
          /\ last'.op = "copy" => ret' = Min(HelperSource(last'), DestSize - 1)
          /\ (last'.op = "copy_counted" /\ last'.k >= 0)
                => ret' = Min3(HelperSource(last'), last'.k, DestSize - 1)]_vars

====
